---- MODULE Spec2Model ----
(***************************************************************************)
(* Radar File Chatbot (radar_chatbot.py): the tiered file search engine    *)
(* and the UI-thread / search-thread handoff around it.                    *)
(*                                                                         *)
(* Text is a sequence of one-character strings, so that substring search,  *)
(* splitting and slicing are computed position by position as Python does. *)
(* The rendered report is a string built by concatenation, so its length   *)
(* is the length of what the code would display.                           *)
(***************************************************************************)
EXTENDS Integers, Sequences, FiniteSets, TLC

(***************************************************************************)
(* Characters                                                              *)
(***************************************************************************)
LowerLetters == {"a", "b", "c", "e", "f", "g", "h", "i", "j", "k", "l", "m",
                 "n", "o", "p", "q", "r", "s", "t", "u", "w", "x", "y", "z"}
UpperLetters == {"Q", "F", "T"}
Digits == {"0", "1", "2"}
\* \w of the re module on this alphabet
WordChars == LowerLetters \cup UpperLetters \cup Digits \cup {"_"}
\* what str.split() and str.strip() treat as whitespace
Whitespace == {" ", "\n", "\t"}
\* the character class [.!?\n] of get_snippet_for_keywords
SentenceBreaks == {".", "!", "?", "\n"}
Punctuation == {".", "!", "?", ",", "-", "/"}
Chars == WordChars \cup Whitespace \cup Punctuation

\* str.lower() on one character
Lower(c) ==
    CASE c = "Q" -> "q"
      [] c = "F" -> "f"
      [] c = "T" -> "t"
      [] OTHER -> c

\* str.lower()
LowerStr(s) == [i \in 1..Len(s) |-> Lower(s[i])]

\* ''.join(...) of a text into the string the report is built from
RECURSIVE Str(_)
Str(s) ==
    IF s = <<>> THEN ""
    ELSE IF Len(s) = 1 THEN s[1]
    ELSE Str(SubSeq(s, 1, Len(s) \div 2)) \o Str(SubSeq(s, Len(s) \div 2 + 1, Len(s)))

Max(a, b) == IF a >= b THEN a ELSE b
Min(a, b) == IF a <= b THEN a ELSE b

\* s[a:b] with 0 <= a, b <= len(s) (Python slice, 0-based, end exclusive)
Slice(s, a, b) == IF b <= a THEN <<>> ELSE SubSeq(s, a + 1, b)

\* str.strip()
RECURSIVE LStrip(_)
LStrip(s) == IF s # <<>> /\ Head(s) \in Whitespace THEN LStrip(Tail(s)) ELSE s
RECURSIVE RStrip(_)
RStrip(s) ==
    IF s # <<>> /\ s[Len(s)] \in Whitespace
    THEN RStrip(SubSeq(s, 1, Len(s) - 1)) ELSE s
Strip(s) == RStrip(LStrip(s))

\* t occurs in s at the 0-based offset p
OccursAt(s, t, p) ==
    /\ p >= 0
    /\ p + Len(t) <= Len(s)
    /\ \A k \in 1..Len(t) : s[p + k] = t[k]

\* t in s
Contains(s, t) == \E p \in 0..(Len(s) - Len(t)) : OccursAt(s, t, p)

\* s.find(t): the least offset, -1 when there is none
Find(s, t) ==
    IF Contains(s, t)
    THEN CHOOSE p \in 0..(Len(s) - Len(t)) :
            /\ OccursAt(s, t, p)
            /\ \A r \in 0..(p - 1) : ~OccursAt(s, t, r)
    ELSE -1

\* Count with the scan resuming one character after the start of an
\* occurrence, so that overlapping occurrences are counted
CountOverlapping(s, t) ==
    IF t = <<>> THEN Len(s) + 1
    ELSE Cardinality({p \in 0..(Len(s) - Len(t)) : OccursAt(s, t, p)})

\* s.count(t) for a non-empty t: occurrences counted left to right, the scan
\* resuming after the end of each occurrence (non-overlapping)
RECURSIVE CountFrom(_, _, _)
CountFrom(s, t, p) ==
    LET later == {q \in p..(Len(s) - Len(t)) : OccursAt(s, t, q)}
    IN  IF later = {} THEN 0
        ELSE LET q == CHOOSE q \in later : \A r \in later : q <= r
             IN  1 + CountFrom(s, t, q + Len(t))
Count(s, t) == IF t = <<>> THEN Len(s) + 1 ELSE CountFrom(s, t, 0)

\* s.endswith(t)
EndsWith(s, t) == Len(t) <= Len(s) /\ OccursAt(s, t, Len(s) - Len(t))

\* the maximal runs of characters of class cls in s, in order
Runs(s, cls) ==
    LET starts == {i \in 1..Len(s) : s[i] \in cls /\ (i = 1 \/ s[i - 1] \notin cls)}
        ends == {j \in 1..Len(s) : s[j] \in cls /\ (j = Len(s) \/ s[j + 1] \notin cls)}
        StartOf(k) == CHOOSE i \in starts : Cardinality({h \in starts : h < i}) = k - 1
        EndOf(k) == CHOOSE j \in ends : Cardinality({h \in ends : h < j}) = k - 1
    IN  [k \in 1..Cardinality(starts) |-> SubSeq(s, StartOf(k), EndOf(k))]

\* str.split(): the whitespace-delimited words
SplitWords(s) == Runs(s, Chars \ Whitespace)

\* ' '.join(s.split())
RECURSIVE JoinWords(_)
JoinWords(ws) ==
    IF ws = <<>> THEN <<>>
    ELSE IF Len(ws) = 1 THEN ws[1]
    ELSE ws[1] \o <<" ">> \o JoinWords(Tail(ws))
CollapseWhitespace(s) == JoinWords(SplitWords(s))

\* re.sub(r'[^\w]', '', word)
RECURSIVE StripNonWord(_)
StripNonWord(w) ==
    IF w = <<>> THEN <<>>
    ELSE IF Head(w) \in WordChars THEN <<Head(w)>> \o StripNonWord(Tail(w))
    ELSE StripNonWord(Tail(w))

\* sum(...) of a sequence of numbers
RECURSIVE SumSeq(_)
SumSeq(ns) == IF ns = <<>> THEN 0 ELSE Head(ns) + SumSeq(Tail(ns))

(***************************************************************************)
(* Tokenizer (search_files, line 350)                                      *)
(***************************************************************************)
RECURSIVE LongerThan(_, _)
LongerThan(ws, n) ==
    IF ws = <<>> THEN <<>>
    ELSE IF Len(Head(ws)) > n THEN <<Head(ws)>> \o LongerThan(Tail(ws), n)
    ELSE LongerThan(Tail(ws), n)

\* Keywords keeping the words of one character too
KeywordsAnyLength(q) ==
    LET ws == LongerThan(Runs(q, WordChars), 0)
    IN  [i \in 1..Len(ws) |-> LowerStr(ws[i])]

\* [word.lower() for word in re.findall(r'\b\w+\b', q) if len(word) > 1]
Keywords(q) ==
    LET ws == LongerThan(Runs(q, WordChars), 1)
    IN  [i \in 1..Len(ws) |-> LowerStr(ws[i])]

(***************************************************************************)
(* Configuration (setup_variables)                                         *)
(***************************************************************************)
\* self.MAX_FILE_SIZE
MAX_FILE_SIZE == 10 * 1024 * 1024
\* self.MAX_SNIPPET_LENGTH
MAX_SNIPPET_LENGTH == 200
\* self.MAX_RESULTS_DISPLAY is 8 in the source; scaled so that small trees
\* hold more matches than are displayed
MAX_RESULTS_DISPLAY == 2
\* self.MAX_TOTAL_RESPONSE_LENGTH is 50000 in the source; scaled so that a
\* header and a few entries reach it
MAX_TOTAL_RESPONSE_LENGTH == 560
\* self.MAX_FILES_TO_SEARCH is 10000 in the source; scaled so that small
\* trees hold more eligible files than may be scanned
MAX_FILES_TO_SEARCH == 3
\* the word distance of check_phrase_proximity (line 509)
PROXIMITY_WORDS == 50
\* the characters of context on each side of a match (lines 531, 574)
CONTEXT_CHARS == 50

(***************************************************************************)
(* Content matcher                                                         *)
(***************************************************************************)
SeqRange(s) == {s[i] : i \in 1..Len(s)}
Abs(n) == IF n < 0 THEN -n ELSE n

\* check_phrase_proximity accepting only keywords on neighbouring words
check_phrase_proximity_adjacent(content, keywords) ==
    IF Len(keywords) < 2 THEN FALSE
    ELSE
    LET words == SplitWords(content)
        clean == [i \in 1..Len(words) |-> StripNonWord(LowerStr(words[i]))]
        word_positions == [kw \in SeqRange(keywords) |->
                              {i \in 1..Len(words) : clean[i] = kw}]
        found == {kw \in SeqRange(keywords) : word_positions[kw] # {}}
    IN  IF Cardinality(found) # Len(keywords) THEN FALSE
        ELSE \E pos1 \in word_positions[keywords[1]] :
                \A k \in 2..Len(keywords) :
                   \E pos2 \in word_positions[keywords[k]] :
                      Abs(pos2 - pos1) <= 1

\* check_phrase_proximity(content_lower, keywords)
check_phrase_proximity(content, keywords) ==
    IF Len(keywords) < 2 THEN FALSE
    ELSE
    LET words == SplitWords(content)
        clean == [i \in 1..Len(words) |-> StripNonWord(LowerStr(words[i]))]
        \* word_positions: keyword -> the word indexes where it stands
        word_positions == [kw \in SeqRange(keywords) |->
                              {i \in 1..Len(words) : clean[i] = kw}]
        found == {kw \in SeqRange(keywords) : word_positions[kw] # {}}
    IN  IF Cardinality(found) # Len(keywords) THEN FALSE
        ELSE \E pos1 \in word_positions[keywords[1]] :
                \A k \in 2..Len(keywords) :
                   \E pos2 \in word_positions[keywords[k]] :
                      Abs(pos2 - pos1) <= PROXIMITY_WORDS

\* the 50-characters-on-each-side window around offset pos (lines 531-544
\* and 574-584)
ContextWindow(content, pos, n) ==
    LET start == Max(0, pos - CONTEXT_CHARS)
        end == Min(Len(content), pos + n + CONTEXT_CHARS)
        body == CollapseWhitespace(Slice(content, start, end))
        pre == IF start > 0 THEN <<".", ".", ".">> \o body ELSE body
        full == IF end < Len(content) THEN pre \o <<".", ".", ".">> ELSE pre
    IN  Slice(full, 0, Min(Len(full), MAX_SNIPPET_LENGTH))

\* get_snippet_for_phrase(content, phrase)
get_snippet_for_phrase(content, phrase) ==
    LET pos == Find(LowerStr(content), LowerStr(phrase))
    IN  IF pos = -1
        THEN Slice(content, 0, Min(Len(content), MAX_SNIPPET_LENGTH)) \o <<".", ".", ".">>
        ELSE ContextWindow(content, pos, Len(phrase))

\* sum(1 for kw in keywords if kw in sentence_lower)
SentenceScore(sentence, keywords) ==
    Cardinality({k \in 1..Len(keywords) : Contains(LowerStr(sentence), keywords[k])})

\* the loop of lines 553-563: the first sentence whose score is strictly
\* greater than every score before it wins
RECURSIVE BestSentence(_, _, _, _)
BestSentence(sentences, keywords, best_sentence, best_score) ==
    IF sentences = <<>> THEN best_sentence
    ELSE LET sentence == Strip(Head(sentences))
             score == SentenceScore(sentence, keywords)
         IN  IF sentence # <<>> /\ score > best_score
             THEN BestSentence(Tail(sentences), keywords, sentence, score)
             ELSE BestSentence(Tail(sentences), keywords, best_sentence, best_score)

\* the fallback loop of lines 571-584: the first keyword found in the content
RECURSIVE KeywordContext(_, _)
KeywordContext(content, keywords) ==
    IF keywords = <<>>
    THEN Slice(content, 0, Min(Len(content), MAX_SNIPPET_LENGTH)) \o <<".", ".", ".">>
    ELSE LET pos == Find(LowerStr(content), Head(keywords))
         IN  IF pos # -1 THEN ContextWindow(content, pos, Len(Head(keywords)))
             ELSE KeywordContext(content, Tail(keywords))

\* get_snippet_for_keywords(content, keywords); re.split(r'[.!?\n]+') yields
\* the maximal runs of other characters (and empty pieces, which are skipped)
get_snippet_for_keywords(content, keywords) ==
    LET sentences == Runs(content, Chars \ SentenceBreaks)
        best_sentence == BestSentence(sentences, keywords, <<>>, 0)
    IN  IF best_sentence # <<>>
        THEN IF Len(best_sentence) > MAX_SNIPPET_LENGTH
             THEN Slice(best_sentence, 0, MAX_SNIPPET_LENGTH - 3) \o <<".", ".", ".">>
             ELSE best_sentence
        ELSE KeywordContext(content, keywords)

\* sum(content_lower.count(kw) for kw in keywords)
KeywordOccurrences(content_lower, keywords) ==
    SumSeq([k \in 1..Len(keywords) |-> Count(content_lower, keywords[k])])

\* AllKeywordsIn with any() in place of all()
AnyKeywordIn(content_lower, keywords) ==
    \E k \in 1..Len(keywords) : Contains(content_lower, keywords[k])

\* AllKeywordsIn asking for the keywords to be near each other as well
AllKeywordsNear(content_lower, keywords) ==
    /\ \A k \in 1..Len(keywords) : Contains(content_lower, keywords[k])
    /\ Len(keywords) < 2 \/ check_phrase_proximity(content_lower, keywords)

\* all(keyword in content_lower for keyword in keywords)
AllKeywordsIn(content_lower, keywords) ==
    \A k \in 1..Len(keywords) : Contains(content_lower, keywords[k])

\* relevance of an exact match (line 403)
ExactScore(content_lower, query_lower) == 1000 + Count(content_lower, query_lower) * 100
\* relevance of a phrase match (line 419)
PhraseScore(content_lower, keywords) == 500 + KeywordOccurrences(content_lower, keywords) * 10
\* relevance of a keyword match (line 434)
KeywordScore(content_lower, keywords) == KeywordOccurrences(content_lower, keywords) * 5

\* Classify with the phrase test ahead of the exact test
ClassifyPhraseFirst(original_query, keywords, content) ==
    LET query_lower == LowerStr(original_query)
        content_lower == LowerStr(content)
    IN  IF Len(keywords) > 1 /\ check_phrase_proximity(content_lower, keywords)
        THEN [match_type |-> "phrase",
              relevance |-> PhraseScore(content_lower, keywords),
              snippet |-> get_snippet_for_keywords(content, keywords)]
        ELSE IF Contains(content_lower, query_lower)
        THEN [match_type |-> "exact",
              relevance |-> ExactScore(content_lower, query_lower),
              snippet |-> get_snippet_for_phrase(content, original_query)]
        ELSE IF AllKeywordsIn(content_lower, keywords)
        THEN [match_type |-> "keywords",
              relevance |-> KeywordScore(content_lower, keywords),
              snippet |-> get_snippet_for_keywords(content, keywords)]
        ELSE [match_type |-> "none", relevance |-> 0, snippet |-> <<>>]

\* the if / elif / elif chain of lines 399-444 on one file's content:
\* the tier ("exact", "phrase", "keywords" or "none"), its relevance, its snippet
Classify(original_query, keywords, content) ==
    LET query_lower == LowerStr(original_query)
        content_lower == LowerStr(content)
    IN  IF Contains(content_lower, query_lower)
        THEN [match_type |-> "exact",
              relevance |-> ExactScore(content_lower, query_lower),
              snippet |-> get_snippet_for_phrase(content, original_query)]
        ELSE IF Len(keywords) > 1 /\ check_phrase_proximity(content_lower, keywords)
        THEN [match_type |-> "phrase",
              relevance |-> PhraseScore(content_lower, keywords),
              snippet |-> get_snippet_for_keywords(content, keywords)]
        ELSE IF AllKeywordsIn(content_lower, keywords)
        THEN [match_type |-> "keywords",
              relevance |-> KeywordScore(content_lower, keywords),
              snippet |-> get_snippet_for_keywords(content, keywords)]
        ELSE [match_type |-> "none", relevance |-> 0, snippet |-> <<>>]

(***************************************************************************)
(* Result aggregator: format_prioritized_results                           *)
(***************************************************************************)
\* c * n
RECURSIVE Rep(_, _)
Rep(c, n) == IF n <= 0 THEN "" ELSE c \o Rep(c, n - 1)

\* f"{x:.1f}" of the exact quotient num / den (den a power of two, so the
\* float is exact): tenths rounded half to even
OneDecimal(num, den) ==
    LET t == num * 10
        q == t \div den
        r == t % den
        tenths == IF 2 * r > den \/ (2 * r = den /\ q % 2 = 1) THEN q + 1 ELSE q
    IN  ToString(tenths \div 10) \o "." \o ToString(tenths % 10)

\* the size formatting of lines 616-622
SizeStr(size_bytes) ==
    IF size_bytes < 1024 THEN ToString(size_bytes) \o " B"
    ELSE IF size_bytes < 1024 * 1024 THEN OneDecimal(size_bytes, 1024) \o " KB"
    ELSE OneDecimal(size_bytes, 1024 * 1024) \o " MB"

\* the header of lines 594-604
Header(query, files_searched, files_skipped, n_exact, n_phrase, n_keyword, n_total) ==
    "SEARCH RESULTS\n"
    \o "Query: '" \o Str(query) \o "'\n"
    \o "Files searched: " \o ToString(files_searched)
    \o (IF files_skipped > 0
        THEN " (skipped " \o ToString(files_skipped) \o " large files)" ELSE "")
    \o "\n\n MATCH SUMMARY:\n"
    \o "  Exact matches: " \o ToString(n_exact) \o "\n"
    \o "  Phrase matches: " \o ToString(n_phrase) \o "\n"
    \o "  Keyword matches: " \o ToString(n_keyword) \o "\n"
    \o "  Total matches: " \o ToString(n_total) \o "\n"
    \o Rep("=", 60) \o "\n\n"

\* the match type indicator of line 625
MatchIndicator(match_type) ==
    IF match_type = "EXACT MATCH" THEN "[EXACT]"
    ELSE IF match_type = "PHRASE MATCH" THEN "[PHRASE]"
    ELSE "[KEYWORD]"

\* one result entry (lines 628-632)
ResultText(i, result) ==
    "[" \o ToString(i) \o "] " \o MatchIndicator(result.match_type) \o " "
        \o result.match_type \o " - " \o result.filename \o "\n"
    \o "    Path: " \o result.path \o "\n"
    \o "    Size: " \o SizeStr(result.size) \o "\n"
    \o "    Content: " \o Str(result.snippet) \o "\n"
    \o Rep("-", 60) \o "\n\n"

TruncationMarker == "More results available but truncated to save space...\n"

\* OverBudget looking only at what is already committed: the entry at hand is
\* appended first and the budget is found exceeded one entry later
OverBudgetLate(current_length, result_text) ==
    current_length > MAX_TOTAL_RESPONSE_LENGTH

\* the budget test of line 635
OverBudget(current_length, result_text) ==
    current_length + Len(result_text) > MAX_TOTAL_RESPONSE_LENGTH

\* the loop of lines 611-641 from the i-th result on: the text appended, the
\* number of entries displayed and whether the truncation marker was written
RECURSIVE RenderEntries(_, _, _, _)
RenderEntries(results, i, displayed_count, current_length) ==
    IF i > Len(results) \/ displayed_count >= MAX_RESULTS_DISPLAY
    THEN [text |-> "", displayed_count |-> displayed_count, truncated |-> FALSE]
    ELSE LET result_text == ResultText(i, results[i])
         IN  IF OverBudget(current_length, result_text)
             THEN [text |-> TruncationMarker, displayed_count |-> displayed_count,
                   truncated |-> TRUE]
             ELSE LET rest == RenderEntries(results, i + 1, displayed_count + 1,
                                            current_length + Len(result_text))
                  IN  [rest EXCEPT !.text = result_text \o rest.text]

\* RemainingSummary written whenever there are results, also when all of them
\* were displayed
RemainingSummaryAlways(n_results, displayed_count, n_exact) ==
    IF n_results >= displayed_count
    THEN "\n" \o ToString(n_results - displayed_count) \o " additional matches not shown.\n"
         \o (IF n_exact > 0
             THEN "Exact matches are shown first for best relevance.\n" ELSE "")
    ELSE ""

\* the note of lines 644-649
RemainingSummary(n_results, displayed_count, n_exact) ==
    IF n_results > displayed_count
    THEN "\n" \o ToString(n_results - displayed_count) \o " additional matches not shown.\n"
         \o (IF n_exact > 0
             THEN "Exact matches are shown first for best relevance.\n" ELSE "")
    ELSE ""

\* the suggestions block of lines 652-657; "*" stands for the one-character
\* bullet of the source
NoResults ==
    "No files found matching your search.\n\n"
    \o "Suggestions:\n"
    \o "  * Try different or fewer keywords\n"
    \o "  * Check if file types are selected\n"
    \o "  * Verify the directory path is correct\n"
    \o "  * Check spelling of search terms\n"

\* format_prioritized_results(results, files_searched, files_skipped, query,
\*                            exact_matches, phrase_matches, keyword_matches)
format_prioritized_results(results, files_searched, files_skipped, query, exact_matches, phrase_matches, keyword_matches) ==
    LET header == Header(query, files_searched, files_skipped, Len(exact_matches),
                         Len(phrase_matches), Len(keyword_matches), Len(results))
    IN  IF results # <<>>
        THEN LET shown == RenderEntries(results, 1, 0, Len(header))
             IN  header \o shown.text
                 \o RemainingSummary(Len(results), shown.displayed_count, Len(exact_matches))
        ELSE header \o NoResults

\* InsertByRelevance putting a record ahead of the records of equal
\* relevance (a sort that is not stable)
RECURSIVE InsertByRelevanceUnstable(_, _)
InsertByRelevanceUnstable(sorted, r) ==
    IF sorted = <<>> THEN <<r>>
    ELSE IF Head(sorted).relevance > r.relevance
         THEN <<Head(sorted)>> \o InsertByRelevanceUnstable(Tail(sorted), r)
         ELSE <<r>> \o sorted

\* list.sort(key=relevance, reverse=True): stable, so records of equal
\* relevance keep their order; computed by insertion from the left
RECURSIVE InsertByRelevance(_, _)
InsertByRelevance(sorted, r) ==
    IF sorted = <<>> THEN <<r>>
    ELSE IF Head(sorted).relevance >= r.relevance
         THEN <<Head(sorted)>> \o InsertByRelevance(Tail(sorted), r)
         ELSE <<r>> \o sorted
RECURSIVE SortFrom(_, _)
SortFrom(sorted, rest) ==
    IF rest = <<>> THEN sorted
    ELSE SortFrom(InsertByRelevance(sorted, Head(rest)), Tail(rest))
SortByRelevance(matches) == SortFrom(<<>>, matches)

\* the footer of lines 471-472
ErrorFooter(files_error) ==
    IF files_error > 0
    THEN "\n" \o ToString(files_error)
         \o " files couldn't be read (permissions/encoding issues)"
    ELSE ""

(***************************************************************************)
(* The directory trees searched                                            *)
(***************************************************************************)
\* words the files and the queries are written with
W_the == <<"t", "h", "e">>
W_quick == <<"q", "u", "i", "c", "k">>
W_Quick == <<"Q", "u", "i", "c", "k">>
W_quickly == <<"q", "u", "i", "c", "k", "l", "y">>
W_brown == <<"b", "r", "o", "w", "n">>
W_fox == <<"f", "o", "x">>
W_Fox == <<"F", "o", "x">>
W_foxes == <<"f", "o", "x", "e", "s">>
W_jumps == <<"j", "u", "m", "p", "s">>
W_a == <<"a">>
W_b == <<"b">>
SP == <<" ">>
DOT == <<".">>

\* file names
TXT == <<".", "t", "x", "t">>
LOG == <<".", "l", "o", "g">>
UPPER_TXT == <<".", "T", "x", "t">>
BAK == <<".", "b", "a", "k">>

\* the suffixes of the file type checkboxes (line 129) that the trees use
Extensions == {TXT, LOG}
\* self.file_extensions of setup_variables restricted to them: both ticked
InitiallyTicked == {TXT, LOG}

\* self.base_dir of setup_variables
DEFAULT_DIR == "D:\\bel\\radar_data_sample120"
SUB_DIR == DEFAULT_DIR \o "\\sub"
MORE_DIR == DEFAULT_DIR \o "\\zed"
MISSING_DIR == "D:\\gone"

\* a file: its name, the size os.path.getsize reports (stat_ok: whether it
\* reports one), the text read() decodes (readable: whether open/read succeed)
File(name, size, content) ==
    [name |-> name, size |-> size, content |-> content,
     stat_ok |-> TRUE, readable |-> TRUE]
TextFile(name, content) == File(name, Len(content), content)

QuickBrownFox == W_the \o SP \o W_quick \o SP \o W_brown \o SP \o W_fox
QuickFoxJumps == W_quick \o SP \o W_fox \o SP \o W_jumps

\* the directories of a tree in os.walk order (top-down); within: the
\* directories a directory lies in, itself included
TreeFox ==
    << [path |-> DEFAULT_DIR, within |-> {DEFAULT_DIR},
        files |-> << TextFile(<<"a">> \o TXT, QuickBrownFox),
                     TextFile(<<"b">> \o TXT, QuickFoxJumps),
                     TextFile(<<"n">> \o BAK, QuickFoxJumps) >>],
       [path |-> SUB_DIR, within |-> {DEFAULT_DIR, SUB_DIR},
        files |-> << TextFile(<<"c">> \o LOG,
                              W_Quick \o SP \o W_Fox \o DOT \o SP \o W_quick \o SP \o W_fox
                                \o <<"!">>),
                     TextFile(<<"d">> \o UPPER_TXT,
                              W_foxes \o SP \o W_jumps \o <<"\n">> \o W_quickly) >>] >>

TreeMany ==
    << [path |-> DEFAULT_DIR, within |-> {DEFAULT_DIR},
        files |-> << TextFile(<<"m", "1">> \o TXT, W_foxes \o SP \o W_quickly),
                     File(<<"b", "i", "g">> \o TXT, MAX_FILE_SIZE + 1, QuickFoxJumps),
                     TextFile(<<"m", "2">> \o TXT,
                              W_quickly \o <<",">> \o SP \o W_foxes \o SP \o W_fox),
                     File(<<"e">> \o TXT, 0, <<>>),
                     TextFile(<<"m", "3">> \o TXT, W_quickly \o <<"\t">> \o W_foxes),
                     TextFile(<<"m", "4">> \o TXT, W_brown \o SP \o W_jumps),
                     TextFile(<<"m", "5">> \o TXT, QuickBrownFox),
                     TextFile(<<"m", "6">> \o TXT, QuickFoxJumps) >>],
       [path |-> SUB_DIR, within |-> {DEFAULT_DIR, SUB_DIR},
        files |-> << TextFile(<<"m", "7">> \o TXT, QuickFoxJumps) >>] >>

TreeSplit ==
    << [path |-> DEFAULT_DIR, within |-> {DEFAULT_DIR},
        files |-> << File(<<"k">> \o LOG, 1280, W_fox \o SP \o W_fox),
                     [File(<<"u">> \o LOG, 9, QuickFoxJumps) EXCEPT !.readable = FALSE],
                     [File(<<"v">> \o LOG, 9, QuickFoxJumps) EXCEPT !.stat_ok = FALSE] >>],
       [path |-> SUB_DIR, within |-> {DEFAULT_DIR, SUB_DIR},
        files |-> << File(<<"l">> \o LOG, 3 * 1024 * 1024, W_fox),
                     File(<<"h">> \o LOG, MAX_FILE_SIZE, W_a \o SP \o W_fox \o DOT),
                     File(<<"g">> \o LOG, MAX_FILE_SIZE + 1, W_fox) >>],
       [path |-> MORE_DIR, within |-> {DEFAULT_DIR, MORE_DIR},
        files |-> << TextFile(<<"o">> \o LOG, W_fox \o SP \o W_fox \o SP \o W_fox),
                     TextFile(<<"p">> \o LOG, W_fox),
                     TextFile(<<"q">> \o LOG, W_fox) >>] >>

W_xx == <<"x", "x">>
W_xxx == <<"x", "x", "x">>
TreeOverlap ==
    << [path |-> DEFAULT_DIR, within |-> {DEFAULT_DIR},
        files |-> << TextFile(<<"x">> \o LOG, W_quick \o SP \o W_xxx \o SP \o W_xx),
                     TextFile(<<"y">> \o LOG, W_quickly \o SP \o W_xxx),
                     TextFile(<<"z">> \o TXT, W_xxx \o W_xx) >>] >>

\* n words "a", each after a blank
Filler(n) == [i \in 1..(2 * n) |-> IF i % 2 = 1 THEN " " ELSE "a"]
\* "fox" and "quick" 50 words apart, and 51 words apart; "fo-x quick"
TreeFar ==
    << [path |-> DEFAULT_DIR, within |-> {DEFAULT_DIR},
        files |-> << TextFile(<<"f">> \o TXT,
                              W_fox \o Filler(PROXIMITY_WORDS - 1) \o SP \o W_quick),
                     TextFile(<<"g">> \o TXT,
                              W_fox \o Filler(PROXIMITY_WORDS) \o SP \o W_quick),
                     TextFile(<<"h">> \o TXT,
                              <<"f", "o", "-", "x">> \o SP \o W_quick) >>] >>

\* texts of one sentence longer than MAX_SNIPPET_LENGTH: the tokens as plain
\* words, and the tokens as words with a hyphen inside; and a text of two
\* sentences of one token each
TreeLong ==
    << [path |-> DEFAULT_DIR, within |-> {DEFAULT_DIR},
        files |-> << TextFile(<<"s">> \o TXT,
                              W_fox \o SP \o W_quick \o Filler(MAX_SNIPPET_LENGTH \div 2)),
                     TextFile(<<"t">> \o TXT,
                              <<"f", "o", "-", "x">> \o SP \o <<"q", "u", "-", "i", "c", "k">>
                                \o Filler(MAX_SNIPPET_LENGTH \div 2)),
                     TextFile(<<"r">> \o TXT, W_quick \o <<".", " ">> \o W_fox) >>] >>

\* a machine on which the default directory does not exist
TreeNone == << >>

\* the trees a run of the program may find on disk, by name
TreeNames == {"fox", "many", "split", "overlap", "far", "long", "none"}
Tree(name) ==
    CASE name = "fox" -> TreeFox
      [] name = "many" -> TreeMany
      [] name = "split" -> TreeSplit
      [] name = "overlap" -> TreeOverlap
      [] name = "far" -> TreeFar
      [] name = "long" -> TreeLong
      [] OTHER -> TreeNone

\* the queries typed into the input box
Q_quick_fox == W_quick \o SP \o W_fox
Q_fox == W_fox
Q_Quick_Fox == SP \o W_Quick \o SP \o W_Fox \o SP
Q_quick_brown_fox == W_quick \o SP \o W_brown \o SP \o W_fox
Q_a_b == W_a \o SP \o W_b
Q_blank == SP \o SP
Q_fox_comma_quick == W_fox \o <<",">> \o W_quick
Q_xx == W_xx
Q_xx_quick == W_xx \o SP \o W_quick
Q_fox_quick_fox == W_fox \o SP \o W_quick \o SP \o W_fox
Queries == {Q_quick_fox, Q_fox, Q_Quick_Fox, Q_quick_brown_fox, Q_a_b, Q_blank,
            Q_fox_comma_quick, Q_xx, Q_xx_quick, Q_fox_quick_fox}

(***************************************************************************)
(* State                                                                   *)
(***************************************************************************)
VARIABLES
    fs,             \* the name of the directory tree on disk (the program only reads it)
    base_dir,       \* self.base_dir
    dir_var,        \* self.dir_var
    file_type_vars, \* the ticked checkboxes of self.file_type_vars
    status_var,     \* self.status_var
    searching,      \* self.searching
    send_button,    \* the state of self.send_button
    input_var,      \* self.input_var
    messages,       \* the chat display: <<tag, text>> per add_message
    threads,        \* the search threads started and not yet ended
    after_queue,    \* the callbacks posted with root.after(0, ...)
    reports,        \* every finished scan: its thread's last state and response
    typed           \* how many queries the user has typed

vars == <<fs, base_dir, dir_var, file_type_vars, status_var, searching,
          send_button, input_var, messages, threads, after_queue, reports, typed>>

\* how many queries a user types in one run of the program
MaxQueries == 2

\* the directory chooser's answers; "" is a cancelled dialog
DirChoices == {DEFAULT_DIR, SUB_DIR, MISSING_DIR, ""}

\* the path of a file, not of a directory
FILE_PATH == DEFAULT_DIR \o "\\a.txt"
\* the paths typed into the directory entry
TypedDirs == {FILE_PATH, MISSING_DIR}

\* os.walk(directory): the directories at and below it, top-down
Walk(tree, directory) == SelectSeq(tree, LAMBDA e : directory \in e.within)

\* os.path.join(root, file)
JoinPath(root, name) == root \o "\\" \o Str(name)

\* os.path.exists(directory): a directory of the tree, or a file of it that
\* stat finds
PathExists(tree, directory) ==
    \E i \in 1..Len(tree) :
        \/ tree[i].path = directory
        \/ \E f \in 1..Len(tree[i].files) :
              /\ tree[i].files[f].stat_ok
              /\ JoinPath(tree[i].path, tree[i].files[f].name) = directory

\* any(file.lower().endswith(ext.lower()) for ext in selected_extensions)
ExtensionSelected(name, selected_extensions) ==
    \E ext \in selected_extensions : EndsWith(LowerStr(name), LowerStr(ext))

\* the count of lines 269-272
SearchableFiles(tree, directory, selected_extensions) ==
    LET walk == Walk(tree, directory)
    IN  SumSeq([d \in 1..Len(walk) |->
                  Cardinality({f \in 1..Len(walk[d].files) :
                      ExtensionSelected(walk[d].files[f].name, selected_extensions)})])

\* check_directory(): what it returns, the status it sets, and self.base_dir
\* after it
check_directory_result(tree, directory, ticked, old_base_dir) ==
    IF directory = ""
    THEN [ok |-> FALSE, status |-> "Please select a directory", base_dir |-> old_base_dir]
    ELSE IF ~PathExists(tree, directory)
    THEN [ok |-> FALSE, status |-> "Directory does not exist", base_dir |-> old_base_dir]
    ELSE IF ticked = {}
    THEN [ok |-> FALSE, status |-> "Please select at least one file type",
          base_dir |-> old_base_dir]
    ELSE [ok |-> TRUE,
          status |-> "Ready - Found "
                     \o ToString(SearchableFiles(tree, directory, ticked))
                     \o " searchable files",
          base_dir |-> directory]

\* add_message(message, tag) (the display's own 100000-character cut is far
\* above every message here)
add_message(log, message, tag) == Append(log, <<tag, message>>)

\* add_welcome_message()
WelcomeMessages ==
    << <<"bot", "Chatbot Ready!">>,
       <<"bot", "Welcome! I can help you search through your files.">>,
       <<"bot", Rep("-", 80)>> >>

\* InitialCounters with files_searched kept in a counter that outlives the
\* search and is not reset
InitialCountersKept ==
    [exact_matches |-> <<>>, phrase_matches |-> <<>>, keyword_matches |-> <<>>,
     files_searched |-> Len(reports), files_skipped |-> 0, files_error |-> 0]

\* the counters and buckets of lines 356-362
InitialCounters ==
    [exact_matches |-> <<>>, phrase_matches |-> <<>>, keyword_matches |-> <<>>,
     files_searched |-> 0, files_skipped |-> 0, files_error |-> 0]

\* a thread created by start_search(query), before it has run
NewThread(query) ==
    [pc |-> "start", query |-> query, original_query |-> <<>>, keywords |-> <<>>,
     exact_matches |-> <<>>, phrase_matches |-> <<>>, keyword_matches |-> <<>>,
     files_searched |-> 0, files_skipped |-> 0, files_error |-> 0,
     selected_extensions |-> {}, walk_root |-> "", di |-> 1, fi |-> 1,
     opened |-> <<>>]

\* the trees and the queries of the runs in which every UI event may come at
\* any time
UiTreeNames == {"fox", "none"}
UiQueries == {Q_quick_fox, Q_a_b, Q_blank}
UiDirChoices == {DEFAULT_DIR, MISSING_DIR, ""}

\* __init__: setup_variables, create_widgets, check_directory, on a machine
\* holding one of the given trees
InitOn(names) ==
    /\ fs \in names
    /\ dir_var = DEFAULT_DIR
    /\ file_type_vars = InitiallyTicked
    /\ LET chk == check_directory_result(Tree(fs), DEFAULT_DIR, InitiallyTicked, DEFAULT_DIR)
       IN  /\ status_var = chk.status
           /\ base_dir = chk.base_dir
    /\ searching = FALSE
    /\ send_button = "normal"
    /\ input_var = <<>>
    /\ messages = WelcomeMessages
    /\ threads = <<>>
    /\ after_queue = <<>>
    /\ reports = <<>>
    /\ typed = 0

(***************************************************************************)
(* UI thread                                                               *)
(***************************************************************************)
\* browse_directory(): the dialog answers directory
browse_directory(directory) ==
    IF directory # ""
    THEN LET chk == check_directory_result(Tree(fs), directory, file_type_vars, directory)
         IN  /\ dir_var' = directory
             /\ base_dir' = chk.base_dir
             /\ status_var' = chk.status
             /\ UNCHANGED <<fs, file_type_vars, searching, send_button, input_var,
                            messages, threads, after_queue, reports, typed>>
    ELSE UNCHANGED vars

\* a click on the checkbox of ext, then its command update_file_extensions()
update_file_extensions(ext) ==
    LET ticked == IF ext \in file_type_vars
                  THEN file_type_vars \ {ext} ELSE file_type_vars \cup {ext}
        chk == check_directory_result(Tree(fs), dir_var, ticked, base_dir)
    IN  /\ file_type_vars' = ticked
        /\ IF ticked # {}
           THEN /\ base_dir' = chk.base_dir
                /\ status_var' = chk.status
           ELSE UNCHANGED <<base_dir, status_var>>
        /\ UNCHANGED <<fs, dir_var, searching, send_button, input_var, messages,
                       threads, after_queue, reports, typed>>

\* the user types a path into dir_entry, which is bound to dir_var
TypeDirectory(directory) ==
    /\ dir_var' = directory
    /\ UNCHANGED <<fs, base_dir, file_type_vars, status_var, searching, send_button,
                   input_var, messages, threads, after_queue, reports, typed>>

\* the Validate button: check_directory()
check_directory ==
    LET chk == check_directory_result(Tree(fs), dir_var, file_type_vars, base_dir)
    IN  /\ base_dir' = chk.base_dir
        /\ status_var' = chk.status
        /\ UNCHANGED <<fs, dir_var, file_type_vars, searching, send_button, input_var,
                       messages, threads, after_queue, reports, typed>>

\* the user types a query into the input box
TypeInput(query, limit) ==
    /\ typed < limit
    /\ input_var' = query
    /\ typed' = typed + 1
    /\ UNCHANGED <<fs, base_dir, dir_var, file_type_vars, status_var, searching,
                   send_button, messages, threads, after_queue, reports>>

\* send_message without the test of self.searching
send_message_reentrant ==
    LET query == Strip(input_var)
        chk == check_directory_result(Tree(fs), dir_var, file_type_vars, base_dir)
    IN  IF query = <<>>
        THEN UNCHANGED vars
        ELSE /\ input_var' = <<>>
             /\ base_dir' = chk.base_dir
             /\ status_var' = chk.status
             /\ IF ~chk.ok
                THEN /\ messages' = add_message(
                                        add_message(messages, "You: " \o Str(query), "user"),
                                        "Please fix directory settings first", "error")
                     /\ UNCHANGED <<searching, send_button, threads>>
                ELSE /\ messages' = add_message(messages, "You: " \o Str(query), "user")
                     /\ searching' = TRUE
                     /\ send_button' = "disabled"
                     /\ threads' = Append(threads, NewThread(query))
             /\ UNCHANGED <<fs, dir_var, file_type_vars, after_queue, reports, typed>>

\* send_message(), with the start_search(query) it ends in
send_message ==
    LET query == Strip(input_var)
        chk == check_directory_result(Tree(fs), dir_var, file_type_vars, base_dir)
    IN  IF searching \/ query = <<>>
        THEN UNCHANGED vars
        ELSE /\ input_var' = <<>>
             /\ base_dir' = chk.base_dir
             /\ status_var' = chk.status
             /\ IF ~chk.ok
                THEN /\ messages' = add_message(
                                        add_message(messages, "You: " \o Str(query), "user"),
                                        "Please fix directory settings first", "error")
                     /\ UNCHANGED <<searching, send_button, threads>>
                ELSE /\ messages' = add_message(messages, "You: " \o Str(query), "user")
                     /\ searching' = TRUE
                     /\ send_button' = "disabled"
                     /\ threads' = Append(threads, NewThread(query))
             /\ UNCHANGED <<fs, dir_var, file_type_vars, after_queue, reports, typed>>

\* search_complete(message), run by the event loop for the oldest callback
search_complete ==
    /\ after_queue # <<>>
    /\ messages' = add_message(messages, Head(after_queue), "result")
    /\ after_queue' = Tail(after_queue)
    /\ searching' = FALSE
    /\ send_button' = "normal"
    /\ UNCHANGED <<fs, base_dir, dir_var, file_type_vars, status_var, input_var,
                   threads, reports, typed>>

(***************************************************************************)
(* Search thread: search_files(query)                                      *)
(***************************************************************************)
EmptyQueryMessage == "Please provide meaningful search terms (2+ characters)"

RemoveAt(seq, t) == SubSeq(seq, 1, t - 1) \o SubSeq(seq, t + 1, Len(seq))

\* LimitReached letting one more file through
LimitReachedLate(files_searched) == files_searched > MAX_FILES_TO_SEARCH

\* the limit test of lines 369 and 451
LimitReached(files_searched) == files_searched >= MAX_FILES_TO_SEARCH

\* TooLarge letting a file one byte over the limit through
TooLargeLate(file_size) == file_size > MAX_FILE_SIZE + 1

\* the size test of line 381
TooLarge(file_size) == file_size > MAX_FILE_SIZE

\* the record appended to a bucket (lines 406-413, 422-429, 437-444)
MatchRecord(file_path, name, file_size, hit, label) ==
    [path |-> file_path, filename |-> Str(name), snippet |-> hit.snippet,
     size |-> file_size, relevance |-> hit.relevance, match_type |-> label]

\* ReadAndMatch with three separate ifs in place of the if / elif chain: a
\* record in the bucket of every tier whose test passes
ReadAndMatchEveryTier(th, root, file) ==
    LET file_path == JoinPath(root, file.name)
        tried == [th EXCEPT !.opened = Append(@, file_path)]
        content == Slice(file.content, 0, Min(Len(file.content), MAX_FILE_SIZE))
        content_lower == LowerStr(content)
        hit == Classify(th.original_query, th.keywords, content)
        rec(label) == MatchRecord(file_path, file.name, file.size, hit, label)
        one == IF Contains(content_lower, LowerStr(th.original_query))
               THEN [tried EXCEPT !.exact_matches = Append(@, rec("EXACT MATCH"))]
               ELSE tried
        two == IF Len(th.keywords) > 1 /\ check_phrase_proximity(content_lower, th.keywords)
               THEN [one EXCEPT !.phrase_matches = Append(@, rec("PHRASE MATCH"))]
               ELSE one
    IN  IF ~file.readable
        THEN [tried EXCEPT !.files_error = @ + 1]
        ELSE IF AllKeywordsIn(content_lower, th.keywords)
        THEN [two EXCEPT !.keyword_matches = Append(@, rec("KEYWORD MATCH"))]
        ELSE two

\* ReadAndMatch without the per-file except: a file that cannot be read ends
\* the scan
ReadAndMatchAbort(th, root, file) ==
    LET file_path == JoinPath(root, file.name)
        tried == [th EXCEPT !.opened = Append(@, file_path)]
        content == Slice(file.content, 0, Min(Len(file.content), MAX_FILE_SIZE))
        hit == Classify(th.original_query, th.keywords, content)
        label == CASE hit.match_type = "exact" -> "EXACT MATCH"
                   [] hit.match_type = "phrase" -> "PHRASE MATCH"
                   [] OTHER -> "KEYWORD MATCH"
        rec == MatchRecord(file_path, file.name, file.size, hit, label)
    IN  IF ~file.readable
        THEN [tried EXCEPT !.files_error = @ + 1, !.pc = "report"]
        ELSE IF hit.match_type = "exact"
        THEN [tried EXCEPT !.exact_matches = Append(@, rec)]
        ELSE IF hit.match_type = "phrase"
        THEN [tried EXCEPT !.phrase_matches = Append(@, rec)]
        ELSE IF hit.match_type = "keywords"
        THEN [tried EXCEPT !.keyword_matches = Append(@, rec)]
        ELSE tried

\* lines 390-444 for a file that was counted: open, read, classify, append
ReadAndMatch(th, root, file) ==
    LET file_path == JoinPath(root, file.name)
        tried == [th EXCEPT !.opened = Append(@, file_path)]
        content == Slice(file.content, 0, Min(Len(file.content), MAX_FILE_SIZE))
        hit == Classify(th.original_query, th.keywords, content)
    IN  IF ~file.readable
        THEN [tried EXCEPT !.files_error = @ + 1]
        ELSE IF hit.match_type = "exact"
        THEN [tried EXCEPT !.exact_matches =
                 Append(@, MatchRecord(file_path, file.name, file.size, hit, "EXACT MATCH"))]
        ELSE IF hit.match_type = "phrase"
        THEN [tried EXCEPT !.phrase_matches =
                 Append(@, MatchRecord(file_path, file.name, file.size, hit, "PHRASE MATCH"))]
        ELSE IF hit.match_type = "keywords"
        THEN [tried EXCEPT !.keyword_matches =
                 Append(@, MatchRecord(file_path, file.name, file.size, hit, "KEYWORD MATCH"))]
        ELSE tried

\* VisitFile reading and matching a file without counting it
VisitFileUncounted(th, root, file) ==
    IF ~ExtensionSelected(file.name, th.selected_extensions) THEN th
    ELSE IF ~file.stat_ok THEN [th EXCEPT !.files_error = @ + 1]
    ELSE IF TooLarge(file.size) THEN [th EXCEPT !.files_skipped = @ + 1]
    ELSE IF file.size = 0 THEN th
    ELSE ReadAndMatch(th, root, file)

\* the body of the inner loop after the limit test (lines 372-448)
VisitFile(th, root, file) ==
    IF ~ExtensionSelected(file.name, th.selected_extensions) THEN th
    ELSE IF ~file.stat_ok THEN [th EXCEPT !.files_error = @ + 1]
    ELSE IF TooLarge(file.size) THEN [th EXCEPT !.files_skipped = @ + 1]
    ELSE IF file.size = 0 THEN th
    ELSE ReadAndMatch([th EXCEPT !.files_searched = @ + 1], root, file)

\* lines 344-366: tokenize; without keywords post the message and end, else
\* set the counters up and start the walk
SearchStart(t) ==
    /\ threads[t].pc = "start"
    /\ LET th == threads[t]
           original_query == Strip(th.query)
           keywords == Keywords(original_query)
           walk == Walk(Tree(fs), base_dir)
       IN  IF keywords = <<>>
           THEN /\ after_queue' = Append(after_queue, EmptyQueryMessage)
                /\ threads' = RemoveAt(threads, t)
           ELSE /\ threads' = [threads EXCEPT ![t] =
                      [th EXCEPT !.pc = "scan",
                                 !.original_query = original_query,
                                 !.keywords = keywords,
                                 !.exact_matches = InitialCounters.exact_matches,
                                 !.phrase_matches = InitialCounters.phrase_matches,
                                 !.keyword_matches = InitialCounters.keyword_matches,
                                 !.files_searched = InitialCounters.files_searched,
                                 !.files_skipped = InitialCounters.files_skipped,
                                 !.files_error = InitialCounters.files_error,
                                 !.selected_extensions = file_type_vars,
                                 !.walk_root = base_dir,
                                 !.di = 1, !.fi = 1]]
                /\ UNCHANGED after_queue
    /\ UNCHANGED <<fs, base_dir, dir_var, file_type_vars, status_var, searching,
                   send_button, input_var, messages, reports, typed>>

\* one turn of the inner loop (lines 367-448): the limit test, then the file
ScanFile(t) ==
    /\ threads[t].pc = "scan"
    /\ LET th == threads[t]
           walk == Walk(Tree(fs), th.walk_root)
       IN  /\ IF th.di > Len(walk) THEN FALSE ELSE th.fi <= Len(walk[th.di].files)
           /\ threads' = [threads EXCEPT ![t] =
                  IF LimitReached(th.files_searched)
                  THEN [th EXCEPT !.pc = "report"]
                  ELSE [VisitFile(th, walk[th.di].path, walk[th.di].files[th.fi])
                           EXCEPT !.fi = th.fi + 1]]
    /\ UNCHANGED <<fs, base_dir, dir_var, file_type_vars, status_var, searching,
                   send_button, input_var, messages, after_queue, reports, typed>>

\* the end of a directory's files (lines 450-452), and the end of the walk
NextDirectory(t) ==
    /\ threads[t].pc = "scan"
    /\ LET th == threads[t]
           walk == Walk(Tree(fs), th.walk_root)
       IN  /\ IF th.di > Len(walk) THEN TRUE ELSE th.fi > Len(walk[th.di].files)
           /\ threads' = [threads EXCEPT ![t] =
                  IF th.di > Len(walk) \/ LimitReached(th.files_searched)
                  THEN [th EXCEPT !.pc = "report"]
                  ELSE [th EXCEPT !.di = th.di + 1, !.fi = 1]]
    /\ UNCHANGED <<fs, base_dir, dir_var, file_type_vars, status_var, searching,
                   send_button, input_var, messages, after_queue, reports, typed>>

\* lines 454-465: each bucket sorted, then the buckets in priority order
AllResults(th) ==
    SortByRelevance(th.exact_matches) \o SortByRelevance(th.phrase_matches)
        \o SortByRelevance(th.keyword_matches)

\* lines 467-472: the response handed to search_complete
Response(th) ==
    format_prioritized_results(AllResults(th), th.files_searched, th.files_skipped,
                               th.original_query, th.exact_matches, th.phrase_matches,
                               th.keyword_matches)
        \o ErrorFooter(th.files_error)

\* lines 454-474: sort, combine, format, post the callback; the thread ends
SearchReport(t) ==
    /\ threads[t].pc = "report"
    /\ LET th == threads[t]
           response == Response(th)
       IN  /\ after_queue' = Append(after_queue, response)
           /\ reports' = Append(reports, [thread |-> th, results |-> AllResults(th),
                                          response |-> response])
           /\ threads' = RemoveAt(threads, t)
    /\ UNCHANGED <<fs, base_dir, dir_var, file_type_vars, status_var, searching,
                   send_button, input_var, messages, typed>>

SearchFailedMessage == "Search failed: error\nPlease check your directory path and try again."

\* SearchFailed without the except clause of lines 476-479: the thread dies
\* of its exception and posts nothing
SearchFailedSilently(t) ==
    /\ threads' = RemoveAt(threads, t)
    /\ UNCHANGED <<fs, base_dir, dir_var, file_type_vars, status_var, searching,
                   send_button, input_var, messages, after_queue, reports, typed>>

\* lines 476-479: an exception outside the per-file try, anywhere before the
\* callback is posted (str(e) stands as "error"); the thread ends
SearchFailed(t) ==
    /\ after_queue' = Append(after_queue, SearchFailedMessage)
    /\ threads' = RemoveAt(threads, t)
    /\ UNCHANGED <<fs, base_dir, dir_var, file_type_vars, status_var, searching,
                   send_button, input_var, messages, reports, typed>>

(***************************************************************************)
(* The simpler variant: search_files of safe_chatbot.py. Its window, its   *)
(* send_message, start_search and search_complete are those of the tiered  *)
(* variant but for pictographs in the texts, which are left out here       *)
(***************************************************************************)
\* [word.lower() for word in re.findall(r'\b\w+\b', query) if len(word) > 2]
safe_keywords(query) ==
    LET ws == LongerThan(Runs(query, WordChars), 2)
    IN  [i \in 1..Len(ws) |-> LowerStr(ws[i])]

SafeEmptyQueryMessage == "Please provide meaningful search terms"

\* results[:8] of format_results
SAFE_RESULTS_DISPLAY == 8
\* the [:200] of get_snippet
SAFE_SNIPPET_LENGTH == 200

\* all(keyword in content for keyword in keywords)
safe_matches(content_lower, keywords) ==
    \A k \in 1..Len(keywords) : Contains(content_lower, keywords[k])

\* get_snippet(content, keywords): the first piece between runs of . ! ? that
\* holds a keyword, stripped and cut, else the head of the content
get_snippet(content, keywords) ==
    LET sentences == Runs(content, Chars \ {".", "!", "?"})
        holding == {i \in 1..Len(sentences) :
                       \E k \in 1..Len(keywords) : Contains(LowerStr(sentences[i]), keywords[k])}
        Cut(text) == Slice(text, 0, Min(Len(text), SAFE_SNIPPET_LENGTH)) \o <<".", ".", ".">>
    IN  IF holding # {}
        THEN Cut(Strip(sentences[CHOOSE i \in holding : \A j \in holding : i <= j]))
        ELSE Cut(content)

\* ', '.join(keywords)
RECURSIVE JoinComma(_)
JoinComma(keywords) ==
    IF keywords = <<>> THEN ""
    ELSE IF Len(keywords) = 1 THEN Str(keywords[1])
    ELSE Str(keywords[1]) \o ", " \o JoinComma(Tail(keywords))

\* the entries of format_results from the i-th result on
RECURSIVE SafeEntries(_, _)
SafeEntries(results, i) ==
    IF i > Len(results) \/ i > SAFE_RESULTS_DISPLAY THEN ""
    ELSE "[" \o ToString(i) \o "] " \o results[i].filename
            \o " (" \o OneDecimal(results[i].size, 1024) \o " KB)\n"
         \o results[i].path \o "\n"
         \o Str(results[i].snippet) \o "\n\n"
         \o SafeEntries(results, i + 1)

\* format_results(results, files_searched, keywords)
format_results(results, files_searched, keywords) ==
    "Searched " \o ToString(files_searched) \o " files for: " \o JoinComma(keywords) \o "\n\n"
    \o (IF results # <<>>
        THEN "Found " \o ToString(Len(results)) \o " matching files:\n\n"
             \o SafeEntries(results, 1)
             \o (IF Len(results) > SAFE_RESULTS_DISPLAY
                 THEN "... and " \o ToString(Len(results) - SAFE_RESULTS_DISPLAY)
                         \o " more files\n"
                 ELSE "")
        ELSE "No matching files found.\n"
             \o "Try different keywords or check your directory path.")

\* the body of the inner loop (lines 340-359): the extension test, the count,
\* then open, read and match under the bare except
SafeVisitFile(th, root, file) ==
    LET file_path == JoinPath(root, file.name)
        counted == [th EXCEPT !.files_searched = @ + 1, !.opened = Append(@, file_path)]
        content == LowerStr(file.content)
    IN  IF ~ExtensionSelected(file.name, th.selected_extensions) THEN th
        ELSE IF ~file.stat_ok \/ ~file.readable THEN counted
        ELSE IF safe_matches(content, th.keywords)
        THEN [counted EXCEPT !.keyword_matches =
                 Append(@, [path |-> file_path, filename |-> Str(file.name),
                            snippet |-> get_snippet(content, th.keywords),
                            size |-> file.size])]
        ELSE counted

\* lines 329-338: the keywords; without any post the message and end, else
\* start the walk
SafeSearchStart(t) ==
    /\ threads[t].pc = "start"
    /\ LET th == threads[t]
           keywords == safe_keywords(th.query)
       IN  IF keywords = <<>>
           THEN /\ after_queue' = Append(after_queue, SafeEmptyQueryMessage)
                /\ threads' = RemoveAt(threads, t)
           ELSE /\ threads' = [threads EXCEPT ![t] =
                      [th EXCEPT !.pc = "scan",
                                 !.original_query = th.query,
                                 !.keywords = keywords,
                                 !.selected_extensions = file_type_vars,
                                 !.walk_root = base_dir,
                                 !.di = 1, !.fi = 1]]
                /\ UNCHANGED after_queue
    /\ UNCHANGED <<fs, base_dir, dir_var, file_type_vars, status_var, searching,
                   send_button, input_var, messages, reports, typed>>

\* one turn of the inner loop (lines 339-359)
SafeScanFile(t) ==
    /\ threads[t].pc = "scan"
    /\ LET th == threads[t]
           walk == Walk(Tree(fs), th.walk_root)
       IN  /\ IF th.di > Len(walk) THEN FALSE ELSE th.fi <= Len(walk[th.di].files)
           /\ threads' = [threads EXCEPT ![t] =
                  [SafeVisitFile(th, walk[th.di].path, walk[th.di].files[th.fi])
                      EXCEPT !.fi = th.fi + 1]]
    /\ UNCHANGED <<fs, base_dir, dir_var, file_type_vars, status_var, searching,
                   send_button, input_var, messages, after_queue, reports, typed>>

\* the end of a directory's files, and the end of the walk (line 338)
SafeNextDirectory(t) ==
    /\ threads[t].pc = "scan"
    /\ LET th == threads[t]
           walk == Walk(Tree(fs), th.walk_root)
       IN  /\ IF th.di > Len(walk) THEN TRUE ELSE th.fi > Len(walk[th.di].files)
           /\ threads' = [threads EXCEPT ![t] =
                  IF th.di > Len(walk)
                  THEN [th EXCEPT !.pc = "report"]
                  ELSE [th EXCEPT !.di = th.di + 1, !.fi = 1]]
    /\ UNCHANGED <<fs, base_dir, dir_var, file_type_vars, status_var, searching,
                   send_button, input_var, messages, after_queue, reports, typed>>

\* lines 361-363: format, post the callback; the thread ends
SafeSearchReport(t) ==
    /\ threads[t].pc = "report"
    /\ LET th == threads[t]
           response == format_results(th.keyword_matches, th.files_searched, th.keywords)
       IN  /\ after_queue' = Append(after_queue, response)
           /\ reports' = Append(reports, [thread |-> th, results |-> th.keyword_matches,
                                          response |-> response])
           /\ threads' = RemoveAt(threads, t)
    /\ UNCHANGED <<fs, base_dir, dir_var, file_type_vars, status_var, searching,
                   send_button, input_var, messages, typed>>

(***************************************************************************)
(* Specifications                                                          *)
(***************************************************************************)
\* the whole program: every UI event at any time, the search threads; the
\* directory is set through the chooser only
Next ==
    \/ \E directory \in UiDirChoices : browse_directory(directory)
    \/ \E ext \in Extensions : update_file_extensions(ext)
    \/ check_directory
    \/ \E query \in UiQueries : TypeInput(query, MaxQueries)
    \/ send_message
    \/ search_complete
    \/ \E t \in 1..Len(threads) : SearchStart(t)
    \/ \E t \in 1..Len(threads) : ScanFile(t)
    \/ \E t \in 1..Len(threads) : NextDirectory(t)
    \/ \E t \in 1..Len(threads) : SearchReport(t)

Init == InitOn(UiTreeNames)
Spec == Init /\ [][Next]_vars

\* one search: the directory, chosen or typed, and the file types are set
\* before the query is typed, then the query is sent and the scan runs to its
\* report
SetUp == typed = 0 /\ input_var = <<>>
NextSearch ==
    \/ SetUp /\ \E directory \in DirChoices : browse_directory(directory)
    \/ SetUp /\ \E directory \in TypedDirs : TypeDirectory(directory)
    \/ SetUp /\ \E ext \in Extensions : update_file_extensions(ext)
    \/ \E query \in Queries : TypeInput(query, 1)
    \/ send_message
    \/ search_complete
    \/ \E t \in 1..Len(threads) : SearchStart(t)
    \/ \E t \in 1..Len(threads) : ScanFile(t)
    \/ \E t \in 1..Len(threads) : NextDirectory(t)
    \/ \E t \in 1..Len(threads) : SearchReport(t)

InitSearch == InitOn(TreeNames)
SpecSearch == InitSearch /\ [][NextSearch]_vars

\* one search of the simpler variant: as SpecSearch, the thread running the
\* search_files of safe_chatbot.py
NextSafe ==
    \/ SetUp /\ \E directory \in DirChoices : browse_directory(directory)
    \/ SetUp /\ \E ext \in Extensions : update_file_extensions(ext)
    \/ \E query \in Queries : TypeInput(query, 1)
    \/ send_message
    \/ search_complete
    \/ \E t \in 1..Len(threads) : SafeSearchStart(t)
    \/ \E t \in 1..Len(threads) : SafeScanFile(t)
    \/ \E t \in 1..Len(threads) : SafeNextDirectory(t)
    \/ \E t \in 1..Len(threads) : SafeSearchReport(t)
SpecSafe == InitSearch /\ [][NextSafe]_vars

\* the life of a search: queries typed and sent, the search thread, which may
\* fail at any step, and the event loop. A started thread keeps running
\* (threading.Thread.start, line 340) and mainloop keeps serving the callbacks
\* posted with root.after (line 677); nothing is assumed of the user
ThreadStep ==
    \E t \in 1..Len(threads) :
        SearchStart(t) \/ ScanFile(t) \/ NextDirectory(t) \/ SearchReport(t)
NextLive ==
    \/ \E query \in UiQueries : TypeInput(query, MaxQueries)
    \/ \E ext \in Extensions : update_file_extensions(ext)
    \/ send_message
    \/ search_complete
    \/ ThreadStep
    \/ \E t \in 1..Len(threads) : SearchFailed(t)
\* a thread always has a next step, and the step changes the thread, so
\* ThreadStep is enabled exactly when there is a thread; WF_vars(ThreadStep)
\* is written out with that enabling condition
ThreadFairness == []<>(threads = <<>>) \/ []<><<ThreadStep>>_vars
Fairness == WF_vars(search_complete) /\ ThreadFairness
SpecLive == Init /\ [][NextLive]_vars /\ Fairness
(***************************************************************************)
(* Properties                                                              *)
(***************************************************************************)
\* every search thread seen so far: the running ones, and the finished ones
\* as they were when they posted their report
Observed ==
    {threads[t] : t \in 1..Len(threads)} \cup {reports[i].thread : i \in 1..Len(reports)}

RECURSIVE Concat(_)
Concat(ss) == IF ss = <<>> THEN <<>> ELSE Head(ss) \o Concat(Tail(ss))

\* the files of a walk in the order the loops meet them, each with its path
FilesOf(walk) ==
    Concat([d \in 1..Len(walk) |->
              [f \in 1..Len(walk[d].files) |->
                  [path |-> JoinPath(walk[d].path, walk[d].files[f].name),
                   file |-> walk[d].files[f]]]])

WalkOf(th) == Walk(Tree(fs), th.walk_root)

\* the files a thread's loops have been through
Visited(th) ==
    LET walk == WalkOf(th)
        whole == SumSeq([d \in 1..Min(th.di - 1, Len(walk)) |-> Len(walk[d].files)])
        part == IF th.di <= Len(walk) THEN th.fi - 1 ELSE 0
    IN  SubSeq(FilesOf(walk), 1, whole + part)

Records(th) == th.exact_matches \o th.phrase_matches \o th.keyword_matches
PathsOf(rs) == {rs[k].path : k \in 1..Len(rs)}

\* the file behind a path of the walk
FileAt(th, path) ==
    LET all == FilesOf(WalkOf(th))
    IN  all[CHOOSE k \in 1..Len(all) : all[k].path = path].file

\* extension-matching, with a size, non-empty and not oversized
Eligible(file, selected_extensions) ==
    /\ ExtensionSelected(file.name, selected_extensions)
    /\ file.stat_ok
    /\ file.size # 0
    /\ file.size <= MAX_FILE_SIZE
EligibleAmong(entries, selected_extensions) ==
    {k \in 1..Len(entries) : Eligible(entries[k].file, selected_extensions)}

\* C1: the report handed to search_complete is never longer than
\* MAX_TOTAL_RESPONSE_LENGTH, whatever was matched, skipped or unreadable
C1_ReportWithinCap ==
    \A i \in 1..Len(reports) : Len(reports[i].response) <= MAX_TOTAL_RESPONSE_LENGTH

\* C2: files_searched never exceeds MAX_FILES_TO_SEARCH; over a tree with more
\* eligible files than that the scan ends with files_searched equal to the
\* limit, right after the last counted file: nothing behind it is opened,
\* recorded or counted, and no further directory is entered
C2_ScanLimit ==
    /\ \A th \in Observed : th.files_searched <= MAX_FILES_TO_SEARCH
    /\ \A i \in 1..Len(reports) :
          LET th == reports[i].thread
              all == FilesOf(WalkOf(th))
              seen == Visited(th)
              counted == EligibleAmong(seen, th.selected_extensions)
          IN  Cardinality(EligibleAmong(all, th.selected_extensions)) > MAX_FILES_TO_SEARCH
              => /\ th.files_searched = MAX_FILES_TO_SEARCH
                 /\ Cardinality(counted) = MAX_FILES_TO_SEARCH
                 /\ Len(seen) \in counted
                 /\ {th.opened[k] : k \in 1..Len(th.opened)} = {seen[k].path : k \in counted}
                 /\ Len(th.opened) = MAX_FILES_TO_SEARCH
                 /\ PathsOf(Records(th)) \subseteq {seen[k].path : k \in counted}
                 /\ th.files_skipped
                       = Cardinality({k \in 1..Len(seen) :
                            /\ ExtensionSelected(seen[k].file.name, th.selected_extensions)
                            /\ seen[k].file.stat_ok
                            /\ seen[k].file.size > MAX_FILE_SIZE})
                 /\ th.files_error
                       = Cardinality({k \in 1..Len(seen) :
                            /\ ExtensionSelected(seen[k].file.name, th.selected_extensions)
                            /\ \/ ~seen[k].file.stat_ok
                               \/ k \in counted /\ ~seen[k].file.readable})
C2_Witness ==
    \E i \in 1..Len(reports) :
        LET th == reports[i].thread
            walk == WalkOf(th)
        IN  /\ Cardinality(EligibleAmong(FilesOf(walk), th.selected_extensions))
                 > MAX_FILES_TO_SEARCH
            /\ th.files_searched = MAX_FILES_TO_SEARCH
            /\ th.di < Len(walk)
            /\ th.fi <= Len(walk[th.di].files)

\* the file's text holds the query as typed (stripped), case-insensitively
HoldsQuery(th, file) ==
    Contains(LowerStr(file.content), LowerStr(Strip(th.query)))

\* C3: a scanned file whose text holds the whole query is recorded as an
\* exact match and in neither of the two other buckets
C3_ExactWins ==
    \A th \in Observed : \A k \in 1..Len(th.opened) :
        LET path == th.opened[k]
            file == FileAt(th, path)
        IN  file.readable /\ HoldsQuery(th, file)
            => /\ \E r \in 1..Len(th.exact_matches) :
                     /\ th.exact_matches[r].path = path
                     /\ th.exact_matches[r].match_type = "EXACT MATCH"
               /\ path \notin PathsOf(th.phrase_matches)
               /\ path \notin PathsOf(th.keyword_matches)
C3_Witness ==
    \E th \in Observed : \E r \in 1..Len(th.exact_matches) :
        LET file == FileAt(th, th.exact_matches[r].path)
        IN  /\ HoldsQuery(th, file)
            /\ Len(th.keywords) > 1
            /\ check_phrase_proximity(LowerStr(file.content), th.keywords)

\* C4: a path is recorded at most once over the three buckets, in the bucket
\* of the first tier (exact, phrase, keywords) whose test its file passes
C4_OneRecordPerFile ==
    \A th \in Observed :
        LET rs == Records(th)
        IN  /\ \A a, b \in 1..Len(rs) : a # b => rs[a].path # rs[b].path
            /\ \A r \in 1..Len(th.exact_matches) :
                  th.exact_matches[r].match_type = "EXACT MATCH"
            /\ \A r \in 1..Len(th.phrase_matches) :
                  /\ th.phrase_matches[r].match_type = "PHRASE MATCH"
                  /\ ~HoldsQuery(th, FileAt(th, th.phrase_matches[r].path))
            /\ \A r \in 1..Len(th.keyword_matches) :
                  LET file == FileAt(th, th.keyword_matches[r].path)
                  IN  /\ th.keyword_matches[r].match_type = "KEYWORD MATCH"
                      /\ ~HoldsQuery(th, file)
                      /\ ~check_phrase_proximity(LowerStr(file.content), th.keywords)
C4_Witness ==
    \E th \in Observed :
        /\ th.exact_matches # <<>>
        /\ th.phrase_matches # <<>>
        /\ \E r \in 1..Len(th.phrase_matches) :
              AllKeywordsIn(LowerStr(FileAt(th, th.phrase_matches[r].path).content),
                            th.keywords)

TierRank(record) ==
    CASE record.match_type = "EXACT MATCH" -> 1
      [] record.match_type = "PHRASE MATCH" -> 2
      [] OTHER -> 3
\* the place of a record's file in the order the scan opened the files
Discovery(th, record) == CHOOSE k \in 1..Len(th.opened) : th.opened[k] = record.path

\* C5: the result list holds the records of the three buckets, exact before
\* phrase before keywords, by descending relevance within a tier, records of
\* equal relevance in the order their files were discovered
C5_ResultOrder ==
    \A i \in 1..Len(reports) :
        LET th == reports[i].thread
            rs == reports[i].results
        IN  /\ Len(rs) = Len(Records(th))
            /\ SeqRange(rs) = SeqRange(Records(th))
            /\ \A a, b \in 1..Len(rs) : a < b =>
                  /\ TierRank(rs[a]) <= TierRank(rs[b])
                  /\ TierRank(rs[a]) = TierRank(rs[b])
                        => rs[a].relevance >= rs[b].relevance
                  /\ (TierRank(rs[a]) = TierRank(rs[b])
                        /\ rs[a].relevance = rs[b].relevance)
                        => Discovery(th, rs[a]) < Discovery(th, rs[b])
C5_Witness ==
    \E i \in 1..Len(reports) :
        LET th == reports[i].thread
            rs == reports[i].results
        IN  \E a, b, c \in 1..Len(rs) :
               /\ a < b /\ b < c
               /\ TierRank(rs[a]) = TierRank(rs[c])
               /\ rs[a].relevance > rs[b].relevance
               /\ Discovery(th, rs[a]) > Discovery(th, rs[b])
               /\ rs[b].relevance = rs[c].relevance

\* the scenario of C7: "quick fox" over a.txt and b.txt
PathA == JoinPath(DEFAULT_DIR, <<"a">> \o TXT)
PathB == JoinPath(DEFAULT_DIR, <<"b">> \o TXT)
QuickFoxScenario(th) ==
    /\ fs = "fox"
    /\ th.pc = "report"
    /\ th.original_query = Q_quick_fox
    /\ {PathA, PathB} \subseteq SeqRange(th.opened)

\* C7 as claimed: neither a.txt nor b.txt is an exact match, both are phrase
\* matches
C7_BothPhrase ==
    \A i \in 1..Len(reports) :
        LET th == reports[i].thread
        IN  QuickFoxScenario(th)
            => /\ {PathA, PathB} \cap PathsOf(th.exact_matches) = {}
               /\ {PathA, PathB} \subseteq PathsOf(th.phrase_matches)

\* C7 as the code has it: a.txt ("the quick brown fox") is a phrase match and
\* no exact match; b.txt ("quick fox jumps") holds "quick fox" contiguously, so
\* it is an exact match of relevance 1100 and in no other bucket
C7_PhraseAndExact ==
    \A i \in 1..Len(reports) :
        LET th == reports[i].thread
        IN  QuickFoxScenario(th)
            => /\ PathA \in PathsOf(th.phrase_matches)
               /\ PathA \notin PathsOf(th.exact_matches) \cup PathsOf(th.keyword_matches)
               /\ \E r \in 1..Len(th.exact_matches) :
                     /\ th.exact_matches[r].path = PathB
                     /\ th.exact_matches[r].relevance = 1100
               /\ PathB \notin PathsOf(th.phrase_matches) \cup PathsOf(th.keyword_matches)
C7_Witness ==
    \E i \in 1..Len(reports) : QuickFoxScenario(reports[i].thread)

\* the offsets at which t occurs in s
Occurrences(s, t) == {p \in 0..(Len(s) - Len(t)) : OccursAt(s, t, p)}
\* the greatest number of occurrences of t in s no two of which overlap
NonOverlapping(s, t) ==
    LET fits == {P \in SUBSET Occurrences(s, t) :
                    \A p, q \in P : p # q => Abs(p - q) >= Len(t)}
    IN  CHOOSE n \in 0..Len(s) :
            /\ \E P \in fits : Cardinality(P) = n
            /\ \A P \in fits : Cardinality(P) <= n
TokenOccurrences(content, keywords) ==
    SumSeq([k \in 1..Len(keywords) |-> NonOverlapping(LowerStr(content), keywords[k])])

\* C8: the relevance of a record is its tier's formula: exact 1000 + 100 * the
\* non-overlapping occurrences of the query, phrase 500 + 10 * the sum of the
\* tokens' occurrences, keywords 5 * that sum; one exact occurrence gives 1100
C8_Scores ==
    \A th \in Observed :
        /\ \A r \in 1..Len(th.exact_matches) :
              LET n == NonOverlapping(
                          LowerStr(FileAt(th, th.exact_matches[r].path).content),
                          LowerStr(th.original_query))
              IN  /\ th.exact_matches[r].relevance = 1000 + 100 * n
                  /\ n = 1 => th.exact_matches[r].relevance = 1100
        /\ \A r \in 1..Len(th.phrase_matches) :
              th.phrase_matches[r].relevance =
                  500 + 10 * TokenOccurrences(FileAt(th, th.phrase_matches[r].path).content,
                                              th.keywords)
        /\ \A r \in 1..Len(th.keyword_matches) :
              th.keyword_matches[r].relevance =
                  5 * TokenOccurrences(FileAt(th, th.keyword_matches[r].path).content,
                                       th.keywords)
C8_Witness ==
    \E th \in Observed :
        /\ \E r \in 1..Len(th.exact_matches) :
              LET text == LowerStr(FileAt(th, th.exact_matches[r].path).content)
                  q == LowerStr(th.original_query)
              IN  Cardinality(Occurrences(text, q)) > NonOverlapping(text, q)
        /\ \E r \in 1..Len(th.exact_matches) : th.exact_matches[r].relevance = 1100

\* C10: an extension-matching file the scan meets whose size is above
\* MAX_FILE_SIZE adds one to files_skipped and nothing to files_searched, is
\* not opened and has no record, whatever its text
C10_TooLargeSkipped ==
    \A th \in Observed :
        LET seen == Visited(th)
            large == {k \in 1..Len(seen) :
                         /\ ExtensionSelected(seen[k].file.name, th.selected_extensions)
                         /\ seen[k].file.stat_ok
                         /\ seen[k].file.size > MAX_FILE_SIZE}
        IN  th.pc \in {"scan", "report"}
            => /\ th.files_skipped = Cardinality(large)
               /\ th.files_searched
                     = Cardinality(EligibleAmong(seen, th.selected_extensions))
               /\ \A k \in large :
                     /\ seen[k].path \notin SeqRange(th.opened)
                     /\ seen[k].path \notin PathsOf(Records(th))
C10_Witness ==
    \E th \in Observed :
        /\ th.files_skipped > 0
        /\ \E k \in 1..Len(Visited(th)) :
              LET file == Visited(th)[k].file
              IN  file.size > MAX_FILE_SIZE /\ HoldsQuery(th, file)
        /\ \E k \in 1..Len(th.opened) : FileAt(th, th.opened[k]).size = MAX_FILE_SIZE

\* C6: two finished searches of the same query over the same directory with
\* the same file types ticked, on the unchanged tree, hand the same report to
\* search_complete
C6_Deterministic ==
    \A i, j \in 1..Len(reports) :
        (/\ reports[i].thread.query = reports[j].thread.query
         /\ reports[i].thread.walk_root = reports[j].thread.walk_root
         /\ reports[i].thread.selected_extensions = reports[j].thread.selected_extensions)
        => reports[i].response = reports[j].response
C6_Witness ==
    \E i, j \in 1..Len(reports) :
        /\ i < j
        /\ reports[i].thread.query = reports[j].thread.query
        /\ reports[i].thread.walk_root = reports[j].thread.walk_root
        /\ reports[i].thread.selected_extensions = reports[j].thread.selected_extensions
        /\ reports[i].thread.files_searched > 0
        /\ <<"result", reports[j].response>> \in SeqRange(messages)

\* a query without a keyword of two characters or more
Tokenless(query) ==
    \A i \in 1..Len(Runs(query, WordChars)) : Len(Runs(query, WordChars)[i]) < 2
\* what send_message displays for the non-blank queries without a keyword
TokenlessUserTexts ==
    {"You: " \o Str(Strip(q)) : q \in {r \in Queries \cup UiQueries :
                                          Strip(r) # <<>> /\ Tokenless(r)}}
DirectoryError == <<"error", "Please fix directory settings first">>
EmptyQueryResult == <<"result", EmptyQueryMessage>>

\* no search thread has scanned for a query without a keyword: none went past
\* its start, opened a file or counted one, and none produced a report
NoScanWithoutKeywords ==
    \A th \in Observed :
        Tokenless(th.query)
        => /\ th.pc = "start"
           /\ th.opened = <<>>
           /\ th.files_searched = 0 /\ th.files_skipped = 0 /\ th.files_error = 0
           /\ Records(th) = <<>>

ExpectedTier(th, file) ==
    LET text == LowerStr(file.content)
    IN  IF HoldsQuery(th, file) THEN "EXACT MATCH"
        ELSE IF Len(th.keywords) > 1 /\ check_phrase_proximity(text, th.keywords)
        THEN "PHRASE MATCH"
        ELSE IF \A k \in 1..Len(th.keywords) : Contains(text, th.keywords[k])
        THEN "KEYWORD MATCH"
        ELSE "none"
\* the extension-matching files of a sequence whose size cannot be had
StatFailures(seen, selected_extensions) ==
    {k \in 1..Len(seen) : /\ ExtensionSelected(seen[k].file.name, selected_extensions)
                          /\ ~seen[k].file.stat_ok}
\* the paths a thread opened and could not read
ReadFailures(th) ==
    {k \in 1..Len(th.opened) : ~FileAt(th, th.opened[k]).readable}

\* C11: a file that cannot be sized or read adds one to files_error and has no
\* record; the scan goes on: it ends only at the end of the walk or at the
\* file limit, every readable file opened, before or after a failure, has the
\* record of its tier or none, and the report lists just these records
C11_ReadFailureContained ==
    \A th \in Observed :
        th.pc \in {"scan", "report"}
        => /\ th.files_error
                 = Cardinality(StatFailures(Visited(th), th.selected_extensions))
                     + Cardinality(ReadFailures(th))
           /\ \A k \in ReadFailures(th) : th.opened[k] \notin PathsOf(Records(th))
           /\ \A k \in StatFailures(Visited(th), th.selected_extensions) :
                 /\ Visited(th)[k].path \notin PathsOf(Records(th))
                 /\ Visited(th)[k].path \notin SeqRange(th.opened)
           /\ \A k \in 1..Len(th.opened) :
                 LET file == FileAt(th, th.opened[k])
                     tier == ExpectedTier(th, file)
                     mine == {r \in 1..Len(Records(th)) :
                                 Records(th)[r].path = th.opened[k]}
                 IN  file.readable
                     => IF tier = "none" THEN mine = {}
                        ELSE /\ Cardinality(mine) = 1
                             /\ \A r \in mine : Records(th)[r].match_type = tier
           /\ th.pc = "report"
                 => \/ th.files_searched >= MAX_FILES_TO_SEARCH
                    \/ Len(Visited(th)) = Len(FilesOf(WalkOf(th)))
C11_Witness ==
    \E i \in 1..Len(reports) :
        LET th == reports[i].thread
        IN  /\ StatFailures(Visited(th), th.selected_extensions) # {}
            /\ \E a \in ReadFailures(th) : \E b \in 1..Len(th.opened) :
                  /\ a < b
                  /\ th.opened[b] \in PathsOf(Records(th))
            /\ Len(reports[i].results) = Len(Records(th))
            /\ <<"result", reports[i].response>> \in SeqRange(messages)

\* the path is a directory of the tree
IsDirectory(tree, directory) == \E i \in 1..Len(tree) : tree[i].path = directory
\* a query is in the input box and no search is running, so that send_message
\* gets to the directory check
ReadyToSend == ~searching /\ Strip(input_var) # <<>>
\* send_message, taken now, shows the query and the directory error, starts
\* no thread and leaves searching False
SendIsRejected ==
    ENABLED (/\ send_message
             /\ messages' = Append(Append(messages,
                                          <<"user", "You: " \o Str(Strip(input_var))>>),
                                   DirectoryError)
             /\ threads' = threads
             /\ searching' = FALSE
             /\ after_queue' = after_queue)

\* C12 as claimed: with the directory missing, not a directory, or no file
\* type ticked, send_message shows the directory error, starts no search and
\* leaves searching False, and no search thread ever runs over such settings
C12_DirectoryInvalidRejected ==
    /\ (/\ ReadyToSend
        /\ \/ ~PathExists(Tree(fs), dir_var)
           \/ ~IsDirectory(Tree(fs), dir_var)
           \/ file_type_vars = {})
       => SendIsRejected
    /\ \A th \in Observed :
          th.pc # "start" => /\ IsDirectory(Tree(fs), th.walk_root)
                             /\ th.selected_extensions # {}

\* C12 for the settings check_directory does reject: no path, a path that does
\* not exist, or no file type ticked
C12_MissingOrUntickedRejected ==
    /\ (/\ ReadyToSend
        /\ \/ dir_var = ""
           \/ ~PathExists(Tree(fs), dir_var)
           \/ file_type_vars = {})
       => SendIsRejected
    /\ \A th \in Observed :
          th.pc # "start" => /\ PathExists(Tree(fs), th.walk_root)
                             /\ th.selected_extensions # {}
                             /\ (~IsDirectory(Tree(fs), th.walk_root) => th.opened = <<>>)
C12_RejectedWitness ==
    \E k \in 1..(Len(messages) - 1) :
        /\ messages[k][1] = "user"
        /\ messages[k + 1] = DirectoryError
        /\ ~searching /\ threads = <<>>
        /\ file_type_vars = {}

\* C13: at most one search is outstanding, as a running thread or as its
\* callback waiting for the event loop, and exactly while searching is True;
\* while searching is True send_message changes nothing: the input stays, no
\* message is added, no thread is started
C13_NoReentrantSearch ==
    /\ Len(threads) <= 1
    /\ Len(threads) + Len(after_queue) = (IF searching THEN 1 ELSE 0)
    /\ searching <=> send_button = "disabled"
    /\ searching => ~ENABLED (send_message /\ vars' # vars)
C13_Witness ==
    /\ searching
    /\ Strip(input_var) # <<>>
    /\ check_directory_result(Tree(fs), dir_var, file_type_vars, base_dir).ok
    /\ \E t \in 1..Len(threads) : threads[t].pc = "scan" /\ threads[t].opened # <<>>

\* the word indexes of a text at which the token stands: the text split on
\* whitespace, each word lowered and stripped of its non-word characters
TokenPositions(content, token) ==
    LET words == SplitWords(LowerStr(content))
    IN  {i \in 1..Len(words) : StripNonWord(words[i]) = token}
\* every token stands somewhere in the text, and some position of the first
\* token has every other token within PROXIMITY_WORDS words
TokensNear(content, keywords) ==
    /\ \A k \in 1..Len(keywords) : TokenPositions(content, keywords[k]) # {}
    /\ \E p \in TokenPositions(content, keywords[1]) :
          \A k \in 2..Len(keywords) :
             \E q \in TokenPositions(content, keywords[k]) :
                Abs(p - q) <= PROXIMITY_WORDS
\* the readable files a thread opened that do not hold its whole query
OpenedWithoutQuery(th) ==
    {k \in 1..Len(th.opened) :
        /\ FileAt(th, th.opened[k]).readable
        /\ ~HoldsQuery(th, FileAt(th, th.opened[k]))}
Distinct(keywords) == Cardinality(SeqRange(keywords)) = Len(keywords)

\* C14 as claimed: for a query of two tokens or more, repeated tokens
\* included, a scanned file without the whole query is a phrase match exactly
\* when its tokens stand near the first one
C14_ProximityPhrase ==
    \A th \in Observed :
        Len(th.keywords) >= 2
        => \A k \in OpenedWithoutQuery(th) :
              th.opened[k] \in PathsOf(th.phrase_matches)
                 <=> TokensNear(FileAt(th, th.opened[k]).content, th.keywords)

\* C14 for the queries that repeat no token, and what a repeated token does:
\* no file is a phrase match then
C14_ProximityPhraseDistinctTokens ==
    \A th \in Observed :
        Len(th.keywords) >= 2
        => IF Distinct(th.keywords)
           THEN \A k \in OpenedWithoutQuery(th) :
                   th.opened[k] \in PathsOf(th.phrase_matches)
                      <=> TokensNear(FileAt(th, th.opened[k]).content, th.keywords)
           ELSE th.phrase_matches = <<>>
C14_DistinctTokensWitness ==
    \E th \in Observed : \E a, b \in OpenedWithoutQuery(th) :
        /\ th.opened[a] \in PathsOf(th.phrase_matches)
        /\ th.opened[b] \in PathsOf(th.keyword_matches)
        /\ \A k \in 1..Len(th.keywords) :
              TokenPositions(FileAt(th, th.opened[b]).content, th.keywords[k]) # {}

\* every token is a substring of the lowered text
TokensInText(th, file) ==
    \A k \in 1..Len(th.keywords) : Contains(LowerStr(file.content), th.keywords[k])
\* every token is a word of the text, once lowered and stripped of its
\* non-word characters
TokensAmongWords(th, file) ==
    \A k \in 1..Len(th.keywords) : TokenPositions(file.content, th.keywords[k]) # {}

\* C15 as claimed: a phrase or keyword record is for a file that holds every
\* token as a substring, and a file that misses a token and does not hold the
\* whole query has no record
C15_RecordsHoldEveryToken ==
    \A th \in Observed : \A k \in 1..Len(th.opened) :
        LET path == th.opened[k]
            file == FileAt(th, path)
        IN  /\ path \in PathsOf(th.phrase_matches) \cup PathsOf(th.keyword_matches)
                 => TokensInText(th, file)
            /\ (~TokensInText(th, file) /\ ~HoldsQuery(th, file))
                 => path \notin PathsOf(Records(th))

\* C15 as the code has it: an exact record needs the whole query in the text,
\* a keyword record every token as a substring, a phrase record every token
\* as a stripped word of the text, which need not be a substring of it; a
\* file with none of the three has no record
C15_RecordsHoldTokensOrWords ==
    \A th \in Observed : \A k \in 1..Len(th.opened) :
        LET path == th.opened[k]
            file == FileAt(th, path)
        IN  /\ path \in PathsOf(th.exact_matches) => HoldsQuery(th, file)
            /\ path \in PathsOf(th.keyword_matches) => TokensInText(th, file)
            /\ path \in PathsOf(th.phrase_matches) => TokensAmongWords(th, file)
            /\ (~HoldsQuery(th, file) /\ ~TokensInText(th, file)
                  /\ ~TokensAmongWords(th, file))
                 => path \notin PathsOf(Records(th))
C15_Witness ==
    \E th \in Observed :
        /\ \E r \in 1..Len(th.phrase_matches) :
              LET file == FileAt(th, th.phrase_matches[r].path)
              IN  ~TokensInText(th, file) /\ TokensAmongWords(th, file)
        /\ th.pc = "report"

\* C16: a scanned, readable file that holds every token as a substring has
\* exactly one record; when that is neither an exact nor a phrase record it is
\* a keyword record, however far apart the tokens are; a query of one token
\* has no phrase record
C16_NoFalseNegatives ==
    \A th \in Observed :
        /\ \A k \in 1..Len(th.opened) :
              LET path == th.opened[k]
                  file == FileAt(th, path)
                  mine == {r \in 1..Len(Records(th)) : Records(th)[r].path = path}
              IN  (th.keywords # <<>> /\ file.readable /\ TokensInText(th, file))
                  => /\ Cardinality(mine) = 1
                     /\ path \notin PathsOf(th.exact_matches) \cup PathsOf(th.phrase_matches)
                           => path \in PathsOf(th.keyword_matches)
        /\ Len(th.keywords) = 1 => th.phrase_matches = <<>>
C16_Witness ==
    \E th \in Observed : \E r \in 1..Len(th.keyword_matches) :
        LET file == FileAt(th, th.keyword_matches[r].path)
        IN  /\ Len(th.keywords) > 1
            /\ TokensAmongWords(th, file)
            /\ ~TokensNear(file.content, th.keywords)
            /\ th.phrase_matches # <<>>

\* C17 as claimed: the snippet of every record, of every tier, is at most
\* MAX_SNIPPET_LENGTH characters long
C17_SnippetWithinLimit ==
    \A th \in Observed : \A r \in 1..Len(Records(th)) :
        Len(Records(th)[r].snippet) <= MAX_SNIPPET_LENGTH

\* C17, what the extractor does keep: an exact record, and a record of a file
\* that holds some token as a substring, is within MAX_SNIPPET_LENGTH; the
\* record of a file that holds the tokens only as words with punctuation
\* inside is the first MAX_SNIPPET_LENGTH characters and a "..." after them
C17_SnippetWithinLimitOrEllipsis ==
    \A th \in Observed : \A r \in 1..Len(Records(th)) :
        LET rec == Records(th)[r]
            text == LowerStr(FileAt(th, rec.path).content)
        IN  /\ Len(rec.snippet) <= MAX_SNIPPET_LENGTH + 3
            /\ (\E k \in 1..Len(th.keywords) : Contains(text, th.keywords[k]))
                  => Len(rec.snippet) <= MAX_SNIPPET_LENGTH
            /\ Len(rec.snippet) > MAX_SNIPPET_LENGTH
                  => /\ rec.path \in PathsOf(th.phrase_matches)
                     /\ rec.snippet = SubSeq(FileAt(th, rec.path).content, 1, MAX_SNIPPET_LENGTH)
                                         \o <<".", ".", ".">>

\* the sentence-like segments of a text, without their outer whitespace, the
\* empty ones left out
Segments(content) ==
    LET pieces == Runs(content, Chars \ SentenceBreaks)
        kept == {i \in 1..Len(pieces) : Strip(pieces[i]) # <<>>}
        Nth(k) == CHOOSE i \in kept : Cardinality({h \in kept : h < i}) = k - 1
    IN  [k \in 1..Cardinality(kept) |-> Strip(pieces[Nth(k)])]
\* the number of distinct tokens of the query a segment holds
DistinctTokensIn(segment, keywords) ==
    Cardinality({kw \in SeqRange(keywords) : Contains(LowerStr(segment), kw)})
\* the first of the segments that hold the greatest number of distinct tokens
FirstRichestSegment(content, keywords) ==
    LET segs == Segments(content)
        i == CHOOSE i \in 1..Len(segs) :
                /\ \A j \in 1..Len(segs) :
                      DistinctTokensIn(segs[j], keywords) <= DistinctTokensIn(segs[i], keywords)
                /\ \A j \in 1..(i - 1) :
                      DistinctTokensIn(segs[j], keywords) < DistinctTokensIn(segs[i], keywords)
    IN  segs[i]
SomeSegmentHoldsToken(content, keywords) ==
    \E i \in 1..Len(Segments(content)) : DistinctTokensIn(Segments(content)[i], keywords) > 0
\* a segment as it is shown: whole, or cut with a trailing ellipsis
Shown(segment) ==
    IF Len(segment) > MAX_SNIPPET_LENGTH
    THEN SubSeq(segment, 1, MAX_SNIPPET_LENGTH - 3) \o <<".", ".", ".">>
    ELSE segment
\* the phrase and keyword records of a search whose file has a segment with
\* a token in it
SegmentRecords(th) ==
    {rec \in SeqRange(th.phrase_matches) \cup SeqRange(th.keyword_matches) :
        SomeSegmentHoldsToken(FileAt(th, rec.path).content, th.keywords)}

\* C18 as claimed: the snippet of a phrase or keyword record is the first of
\* the segments holding the greatest number of distinct tokens, a token
\* repeated in the query counting once
C18_SnippetFromRichestSegment ==
    \A th \in Observed : \A rec \in SegmentRecords(th) :
        rec.snippet = Shown(FirstRichestSegment(FileAt(th, rec.path).content, th.keywords))

\* C18 for the queries that repeat no token
C18_SnippetFromRichestSegmentDistinctTokens ==
    \A th \in Observed :
        Distinct(th.keywords)
        => \A rec \in SegmentRecords(th) :
              rec.snippet = Shown(FirstRichestSegment(FileAt(th, rec.path).content, th.keywords))

\* the header of a report, from the thread that posted it
ReportHeader(th, rs) ==
    Header(th.original_query, th.files_searched, th.files_skipped, Len(th.exact_matches), Len(th.phrase_matches), Len(th.keyword_matches), Len(rs))
\* the entries of the first d results, numbered from 1
RECURSIVE FrontEntries(_, _)
FrontEntries(rs, d) ==
    IF d = 0 THEN "" ELSE FrontEntries(rs, d - 1) \o ResultText(d, rs[d])
AdditionalNote(n) == "\n" \o ToString(n) \o " additional matches not shown.\n"
ExactFirstHint == "Exact matches are shown first for best relevance.\n"

\* C19: a report with results is the header, the entries of the first d
\* results for some d up to MAX_RESULTS_DISPLAY (with or without the
\* truncation marker after them), then the "N additional matches not shown"
\* note with N = total - d exactly when d is below the total; a report
\* without results is the header and the suggestions block, no entry
C19_DisplayLimitAndNote ==
    \A i \in 1..Len(reports) :
        LET th == reports[i].thread
            rs == reports[i].results
            header == ReportHeader(th, rs)
            footer == ErrorFooter(th.files_error)
        IN  IF rs = <<>>
            THEN reports[i].response = header \o NoResults \o footer
            ELSE \E d \in 0..Min(Len(rs), MAX_RESULTS_DISPLAY) :
                    \E marker \in {"", TruncationMarker} : \E hint \in {"", ExactFirstHint} :
                       reports[i].response =
                          header \o FrontEntries(rs, d) \o marker
                             \o (IF d < Len(rs) THEN AdditionalNote(Len(rs) - d) \o hint ELSE "")
                             \o footer
C19_Witness ==
    \E i \in 1..Len(reports) :
        LET th == reports[i].thread
            rs == reports[i].results
        IN  /\ Len(rs) > MAX_RESULTS_DISPLAY
            /\ \E hint \in {"", ExactFirstHint} :
                  reports[i].response =
                     ReportHeader(th, rs) \o FrontEntries(rs, MAX_RESULTS_DISPLAY)
                        \o AdditionalNote(Len(rs) - MAX_RESULTS_DISPLAY) \o hint
                        \o ErrorFooter(th.files_error)

\* the header and the first k entries are within the budget
Fits(th, rs, k) ==
    Len(ReportHeader(th, rs)) + Len(FrontEntries(rs, k)) <= MAX_TOTAL_RESPONSE_LENGTH
\* the number of entries up to the display limit that the budget admits:
\* the entries before the first one that would exceed it
Admitted(th, rs) ==
    LET most == Min(Len(rs), MAX_RESULTS_DISPLAY)
    IN  CHOOSE d \in 0..most :
           /\ \A k \in 1..d : Fits(th, rs, k)
           /\ d < most => ~Fits(th, rs, d + 1)

\* C20: an entry is in the report exactly when the header, the entries before
\* it and the entry itself are within MAX_TOTAL_RESPONSE_LENGTH; the first
\* entry that is not takes the truncation marker in its place and nothing but
\* the closing note follows the marker
C20_BudgetBeforeCommit ==
    \A i \in 1..Len(reports) :
        LET th == reports[i].thread
            rs == reports[i].results
            d == Admitted(th, rs)
        IN  rs # <<>>
            => \E hint \in {"", ExactFirstHint} :
                  reports[i].response =
                     ReportHeader(th, rs) \o FrontEntries(rs, d)
                        \o (IF d < Min(Len(rs), MAX_RESULTS_DISPLAY) THEN TruncationMarker ELSE "")
                        \o (IF d < Len(rs) THEN AdditionalNote(Len(rs) - d) \o hint ELSE "")
                        \o ErrorFooter(th.files_error)
\* an entry was replaced by the marker, and a result behind it, below the
\* display limit, would have been within the budget
C20_Witness ==
    \E i \in 1..Len(reports) :
        LET th == reports[i].thread
            rs == reports[i].results
            d == Admitted(th, rs)
        IN  /\ d < Min(Len(rs), MAX_RESULTS_DISPLAY)
            /\ \E j \in (d + 2)..Min(Len(rs), MAX_RESULTS_DISPLAY) :
                  Len(ReportHeader(th, rs)) + Len(FrontEntries(rs, d)) + Len(ResultText(d + 1, rs[j]))
                     <= MAX_TOTAL_RESPONSE_LENGTH
            /\ \E hint \in {"", ExactFirstHint} :
                  reports[i].response =
                     ReportHeader(th, rs) \o FrontEntries(rs, d) \o TruncationMarker
                        \o AdditionalNote(Len(rs) - d) \o hint \o ErrorFooter(th.files_error)

\* the messages of the chat display with a given tag
Tagged(tag) == {k \in 1..Len(messages) : messages[k][1] = tag}
\* the searches started so far: the queries shown less the ones turned down
Started == Cardinality(Tagged("user")) - Cardinality(Tagged("error"))
InFlight == IF searching THEN 1 ELSE 0

\* C21: a started search is at every moment one running thread or one posted
\* callback, never both and never more; every one of them ends in one
\* search_complete, whether the query had no keywords, the scan reported or
\* the scan failed; searching is set exactly while the send button is
\* disabled, and whenever it is set it is cleared again later
C21_SearchCompletes ==
    /\ [](Len(threads) + Len(after_queue) = InFlight)
    /\ [](Cardinality(Tagged("result")) + InFlight = Started)
    /\ [](searching <=> send_button = "disabled")
    /\ (searching ~> (~searching /\ send_button = "normal"))
\* a search failed and was completed, and a later search was started and
\* completed too
C21_Witness ==
    /\ ~searching
    /\ \E a, b \in Tagged("result") :
          /\ a < b
          /\ messages[a][2] = SearchFailedMessage
          /\ messages[b][2] # SearchFailedMessage
          /\ messages[b][2] # EmptyQueryMessage

\* the keywords the tiered variant derives from the query of a thread
TieredKeywords(th) == Keywords(Strip(th.query))
\* the readable files a thread of the simpler variant has opened so far
SafeRead(th) ==
    {k \in 1..Len(th.opened) :
        FileAt(th, th.opened[k]).stat_ok /\ FileAt(th, th.opened[k]).readable}

\* C22 as claimed: the simpler variant records a file it has read exactly
\* when every keyword the tiered variant derives from the query is a
\* substring of the lowered content, and it turns a query down as having no
\* meaningful terms exactly when the tiered variant has no keyword for it
C22_SimpleIsTierThree ==
    /\ [](\A th \in Observed :
            th.pc # "start"
            => \A k \in SafeRead(th) :
                  th.opened[k] \in PathsOf(th.keyword_matches)
                     <=> \A n \in 1..Len(TieredKeywords(th)) :
                            Contains(LowerStr(FileAt(th, th.opened[k]).content),
                                     TieredKeywords(th)[n]))
    /\ [][\A t \in 1..Len(threads) :
            (threads[t].pc = "start" /\ threads' # threads)
            => (after_queue' = Append(after_queue, SafeEmptyQueryMessage)
                  <=> TieredKeywords(threads[t]) = <<>>)]_vars

\* C22 for the queries whose words all have three characters or more (then
\* the two variants derive the same keywords), and what the simpler variant
\* does in general: it matches on the words of three characters or more
C22_SimpleIsTierThreeLongWords ==
    \A th \in Observed :
        th.pc # "start"
        => /\ th.keywords # <<>>
           /\ SeqRange(th.keywords) = {kw \in SeqRange(TieredKeywords(th)) : Len(kw) > 2}
           /\ \A k \in SafeRead(th) :
                 th.opened[k] \in PathsOf(th.keyword_matches)
                    <=> \A kw \in SeqRange(TieredKeywords(th)) :
                           Len(kw) > 2 => Contains(LowerStr(FileAt(th, th.opened[k]).content), kw)

\* C23 as claimed: whatever the user does while a search is in flight, the
\* thread walks a directory that check_directory accepts and filters by a
\* set of extensions that it accepts: the directory exists and some
\* extension is ticked
C23_ScansWhatWasChecked ==
    \A th \in Observed :
        th.pc # "start"
        => /\ PathExists(Tree(fs), th.walk_root)
           /\ th.selected_extensions # {}

\* C23 when the user does nothing between the send and the thread's first
\* step: the thread reads base_dir and the checkboxes as send_message left
\* them, which check_directory has accepted
C23_ScansCurrentSettings ==
    [][\A t \in 1..Len(threads) :
          (threads[t].pc = "start" /\ Len(threads') = Len(threads) /\ threads'[t].pc = "scan")
          => /\ threads'[t].walk_root = base_dir
             /\ threads'[t].selected_extensions = file_type_vars]_vars

\* the header with the sum of the three bucket sizes as its total
HeaderOfSum(th) ==
    Header(th.original_query, th.files_searched, th.files_skipped, Len(th.exact_matches), Len(th.phrase_matches), Len(th.keyword_matches), Len(th.exact_matches) + Len(th.phrase_matches) + Len(th.keyword_matches))

\* C24: from one step of a scan to the next none of files_searched,
\* files_skipped and files_error decreases; at every moment the three
\* buckets together hold at most files_searched records; and the header of
\* the report gives as total the sum of the three bucket sizes
C24_CountersAccumulate ==
    /\ [][\A t \in 1..Len(threads) :
            Len(threads') = Len(threads)
            => /\ threads'[t].files_searched >= threads[t].files_searched
               /\ threads'[t].files_skipped >= threads[t].files_skipped
               /\ threads'[t].files_error >= threads[t].files_error]_vars
    /\ [](\A th \in Observed : Len(Records(th)) <= th.files_searched)
    /\ [](\A i \in 1..Len(reports) :
            LET th == reports[i].thread
                rs == reports[i].results
                footer == ErrorFooter(th.files_error)
            IN  IF rs = <<>>
                THEN reports[i].response = HeaderOfSum(th) \o NoResults \o footer
                ELSE \E d \in 0..Min(Len(rs), MAX_RESULTS_DISPLAY) :
                        \E marker \in {"", TruncationMarker} : \E hint \in {"", ExactFirstHint} :
                           reports[i].response =
                              HeaderOfSum(th) \o FrontEntries(rs, d) \o marker
                                 \o (IF d < Len(rs) THEN AdditionalNote(Len(rs) - d) \o hint ELSE "")
                                 \o footer)
\* a report of a scan that counted files, one of them unreadable, and holds
\* records, fewer than the files counted
C24_Witness ==
    \E i \in 1..Len(reports) :
        LET th == reports[i].thread
        IN  /\ th.files_error > 0
            /\ Len(Records(th)) > 1
            /\ Len(Records(th)) < th.files_searched
====
